---- MODULE Spec2Model ----
(***************************************************************************)
(* A model of the EGSnrc Gmsh msh 4.1 reader (msh_parser) and of the       *)
(* tetrahedron face-neighbour builder (mesh_neighbours).                   *)
(*                                                                         *)
(* Arrays keep the 0-based indices of the source: a std::vector<int> of    *)
(* length n is a function with domain 0..n-1.  A std::vector of objects    *)
(* that is only appended to and iterated is a sequence.  A call that       *)
(* throws is a record with ok = FALSE and the text of the exception.       *)
(***************************************************************************)
EXTENDS Integers, Sequences, FiniteSets, TLC

VARIABLES
    ctor_args,      \* SpecTet: the four integers handed to Tetrahedron(a, b, c, d)
    ctor_res,       \* SpecTet: what the constructor produced (or NotRun)
    elements,       \* SpecNbr: std::vector<mesh_neighbours::Tetrahedron> neighbour_elts
    nbrs,           \* SpecNbr: result of tetrahedron_neighbours(neighbour_elts) (or NotRun)
    naive,          \* SpecNbr: result of naive_neighbours(neighbour_elts) (or NotRun)
    input,          \* the parsers: the std::istream handed to the function under study
    parsed,         \* the parsers: what the function returned or threw (or NotRun)
    index,          \* SpecIndex, SpecBuilders: result of elements_around_points (or NotRun)
    shared,         \* SpecIndex, SpecBuilders: result of elements_around_nodes (or NotRun)
    flag_nbrs,      \* SpecBuilders: result of neighbour.h's tetrahedron_neighbours (or NotRun)
    list_nbrs       \* SpecBuilders: result of part_002's tetrahedron_neighbours (or NotRun)

tetVars == <<ctor_args, ctor_res>>
nbrVars == <<elements, nbrs, naive>>
parseVars == <<input, parsed>>
idxVars == <<index, shared, flag_nbrs, list_nbrs>>
vars == <<tetVars, nbrVars, parseVars, idxVars>>

\* Marks a call that has not been made yet.
NotRun == [ok |-> FALSE, what |-> "not run"]

(***************************************************************************)
(* Bounds of the model.                                                    *)
(***************************************************************************)
\* Largest integer handed to the Tetrahedron constructor in SpecTet.
MaxArg == 4
\* Largest node tag of the elements handed to the neighbour builder.
MaxTag == 5
\* Largest number of elements handed to the neighbour builder.
MaxTets == 3

(***************************************************************************)
(* mesh_neighbours::Tetrahedron                                            *)
(***************************************************************************)
NONE == -1

NODES_PER_ELT == 4

FACES_PER_ELT == 4

\* std::to_string is not modelled: an exception carries its kind and the
\* offending integer side by side.
Throw(kind, n) == [ok |-> FALSE, what |-> kind, arg |-> n]

RECURSIVE InsertSorted(_, _)
InsertSorted(x, s) ==
    IF s = <<>> THEN <<x>>
    ELSE IF x <= Head(s) THEN <<x>> \o s
    ELSE <<Head(s)>> \o InsertSorted(x, Tail(s))

\* The vector left as it was filled.
StdSort_Unsorted(s) == s

\* std::sort(sorted.begin(), sorted.end()) on a vector of int.
RECURSIVE StdSort(_)
StdSort(s) == IF s = <<>> THEN <<>> ELSE InsertSorted(Head(s), StdSort(Tail(s)))

TetrahedronUnsorted(a, b, c, d) ==
    IF a < 0 THEN Throw("negative node", a)
    ELSE IF b < 0 THEN Throw("negative node", b)
    ELSE IF c < 0 THEN Throw("negative node", c)
    ELSE IF d < 0 THEN Throw("negative node", d)
    ELSE IF a = b \/ a = c \/ a = d THEN Throw("duplicate node", a)
    ELSE IF b = c \/ b = d THEN Throw("duplicate node", b)
    ELSE IF c = d THEN Throw("duplicate node", c)
    ELSE [ok |-> TRUE, _a |-> a, _b |-> b, _c |-> c, _d |-> d]

TetrahedronNoDupCheck(a, b, c, d) ==
    IF a < 0 THEN Throw("negative node", a)
    ELSE IF b < 0 THEN Throw("negative node", b)
    ELSE IF c < 0 THEN Throw("negative node", c)
    ELSE IF d < 0 THEN Throw("negative node", d)
    ELSE IF a = b \/ a = c \/ a = d THEN Throw("duplicate node", a)
    ELSE IF b = c THEN Throw("duplicate node", b)
    ELSE IF c = d THEN Throw("duplicate node", c)
    ELSE LET sorted == StdSort(<<a, b, c, d>>)
         IN  [ok |-> TRUE, _a |-> sorted[1], _b |-> sorted[2],
              _c |-> sorted[3], _d |-> sorted[4]]

\* Tetrahedron::Tetrahedron(int a, int b, int c, int d)
Tetrahedron(a, b, c, d) ==
    IF a < 0 THEN Throw("negative node", a)
    ELSE IF b < 0 THEN Throw("negative node", b)
    ELSE IF c < 0 THEN Throw("negative node", c)
    ELSE IF d < 0 THEN Throw("negative node", d)
    ELSE IF a = b \/ a = c \/ a = d THEN Throw("duplicate node", a)
    ELSE IF b = c \/ b = d THEN Throw("duplicate node", b)
    ELSE IF c = d THEN Throw("duplicate node", c)
    ELSE LET sorted == StdSort(<<a, b, c, d>>)
         IN  [ok |-> TRUE, _a |-> sorted[1], _b |-> sorted[2],
              _c |-> sorted[3], _d |-> sorted[4]]

\* Tetrahedron::nodes()
nodes(t) == [k \in 0..3 |-> CASE k = 0 -> t._a [] k = 1 -> t._b
                              [] k = 2 -> t._c [] OTHER -> t._d]

\* Tetrahedron::max_node()
max_node(t) == t._d

\* Tetrahedron::faces()
faces(t) ==
    [k \in 0..3 |-> CASE k = 0 -> <<t._b, t._c, t._d>>
                      [] k = 1 -> <<t._a, t._c, t._d>>
                      [] k = 2 -> <<t._a, t._b, t._d>>
                      [] OTHER -> <<t._a, t._b, t._c>>]

\* elements[i] of a std::vector held as a sequence.
At(v, i) == v[i + 1]

\* flatten_tetrahedron_vector(elements)
flatten_tetrahedron_vector(elts) ==
    [k \in 0..(NODES_PER_ELT * Len(elts) - 1) |->
        nodes(At(elts, k \div NODES_PER_ELT))[k % NODES_PER_ELT]]

(***************************************************************************)
(* elements_around_points: the CSR index of the elements around each node  *)
(***************************************************************************)
\* std::vector::at(i) on a vector of length n throws std::out_of_range
\* unless 0 <= i < n (a negative int converts to a huge std::size_t).
InRange(i, n) == 0 <= i /\ i < n

\* *std::max_element(nodes.begin(), nodes.end()) of a non-empty vector.
MaxElement(v) == CHOOSE m \in {v[k] : k \in DOMAIN v} : \A k \in DOMAIN v : v[k] <= m

\* First loop: indices.at(idx) += 1 for every node of every element, from
\* position k of the flat node list on.
RECURSIVE CountNodes(_, _, _)
CountNodes(nds, indices, k) ==
    IF k >= Cardinality(DOMAIN nds) THEN [ok |-> TRUE, indices |-> indices]
    ELSE LET idx == nds[k]
         IN  IF ~InRange(idx, Cardinality(DOMAIN indices))
             THEN [ok |-> FALSE, what |-> "out_of_range"]
             ELSE CountNodes(nds, [indices EXCEPT ![idx] = @ + 1], k + 1)

\* Second loop: indices.at(i) += indices.at(i-1) for i = 1 .. size-1.
RECURSIVE PrefixSum(_, _)
PrefixSum(indices, i) ==
    IF i >= Cardinality(DOMAIN indices) THEN indices
    ELSE PrefixSum([indices EXCEPT ![i] = @ + indices[i - 1]], i + 1)

\* Third loop: the element index i = k / 4 is written at the cursor of each of
\* its nodes and the cursor advances, from position k of the flat list on.
RECURSIVE FillEltList(_, _, _, _)
FillEltList(nds, indices, eltList, k) ==
    IF k >= Cardinality(DOMAIN nds)
    THEN [ok |-> TRUE, indices |-> indices, eltList |-> eltList]
    ELSE LET node == nds[k] - 1
         IN  IF ~InRange(node, Cardinality(DOMAIN indices))
             THEN [ok |-> FALSE, what |-> "out_of_range"]
             ELSE LET node_pos == indices[node]
                  IN  FillEltList(nds,
                                  [indices EXCEPT ![node] = @ + 1],
                                  [eltList EXCEPT ![node_pos] = k \div NODES_PER_ELT],
                                  k + 1)

ShiftRightKeepFirst(indices) ==
    [i \in DOMAIN indices |-> IF i = 0 THEN indices[0] ELSE indices[i - 1]]

\* Last loop: shift the indices vector right by 1, then indices[0] = 0.
ShiftRight(indices) ==
    [i \in DOMAIN indices |-> IF i = 0 THEN 0 ELSE indices[i - 1]]

elements_around_points_ShortIndex(nds) ==
    LET num_unique_nodes == MaxElement(nds)
        zero == [i \in 0..(num_unique_nodes - 1) |-> 0]
        counted == CountNodes(nds, zero, 0)
    IN  IF ~counted.ok THEN counted
        ELSE LET summed == PrefixSum(counted.indices, 1)
                 blank == [p \in 0..(summed[num_unique_nodes - 1] - 1) |-> -1]
                 filled == FillEltList(nds, summed, blank, 0)
             IN  IF ~filled.ok THEN filled
                 ELSE [ok |-> TRUE,
                       elt_list |-> filled.eltList,
                       list_indices |-> ShiftRight(filled.indices)]

\* elements_around_points without the last loop: the cursors are returned
\* where the third loop left them.
elements_around_points_NoShift(nds) ==
    LET num_unique_nodes == MaxElement(nds)
        zero == [i \in 0..num_unique_nodes |-> 0]
        counted == CountNodes(nds, zero, 0)
    IN  IF ~counted.ok THEN counted
        ELSE LET summed == PrefixSum(counted.indices, 1)
                 blank == [p \in 0..(summed[num_unique_nodes] - 1) |-> -1]
                 filled == FillEltList(nds, summed, blank, 0)
             IN  IF ~filled.ok THEN filled
                 ELSE [ok |-> TRUE,
                       elt_list |-> filled.eltList,
                       list_indices |-> filled.indices]

\* EltsAroundPoints elements_around_points(const std::vector<int>& nodes),
\* for a non-empty node list.
elements_around_points(nds) ==
    LET num_unique_nodes == MaxElement(nds)
        zero == [i \in 0..num_unique_nodes |-> 0]
        counted == CountNodes(nds, zero, 0)
    IN  IF ~counted.ok THEN counted
        ELSE LET summed == PrefixSum(counted.indices, 1)
                 blank == [p \in 0..(summed[num_unique_nodes] - 1) |-> -1]
                 filled == FillEltList(nds, summed, blank, 0)
             IN  IF ~filled.ok THEN filled
                 ELSE [ok |-> TRUE,
                       elt_list |-> filled.eltList,
                       list_indices |-> ShiftRight(filled.indices)]

(***************************************************************************)
(* tetrahedron_neighbours (msh_parser.h) and the naive_neighbours baseline *)
(***************************************************************************)
MatchFaceSameSlot(nb, i, j, elt, face, other, k) ==
    IF \E q \in k..(FACES_PER_ELT - 1) : face = other[q]
    THEN [nb EXCEPT ![i * FACES_PER_ELT + j] = elt,
                    ![elt * FACES_PER_ELT + j] = i]
    ELSE nb

\* The loop over other_face_idx that never compares face 0 of the other
\* element.
RECURSIVE MatchFace_SkipFaceZero(_, _, _, _, _, _, _)
MatchFace_SkipFaceZero(nb, i, j, elt, face, other, k) ==
    IF k >= FACES_PER_ELT THEN nb
    ELSE IF k > 0 /\ face = other[k]
         THEN [nb EXCEPT ![i * FACES_PER_ELT + j] = elt,
                        ![elt * FACES_PER_ELT + k] = i]
         ELSE MatchFace_SkipFaceZero(nb, i, j, elt, face, other, k + 1)

\* The loop over other_face_idx = k .. 3: on the first face of the other
\* element equal to `face` both slots are written and the loop breaks.
RECURSIVE MatchFace(_, _, _, _, _, _, _)
MatchFace(nb, i, j, elt, face, other, k) ==
    IF k >= FACES_PER_ELT THEN nb
    ELSE IF face = other[k]
         THEN [nb EXCEPT ![i * FACES_PER_ELT + j] = elt,
                        ![elt * FACES_PER_ELT + k] = i]
         ELSE MatchFace(nb, i, j, elt, face, other, k + 1)

\* The loop over the elements around face_point without the test
\* `if (elt == i) continue;`.
RECURSIVE ScanCandidates_NoSelfSkip(_, _, _, _, _, _, _, _)
ScanCandidates_NoSelfSkip(elts, eltList, nb, i, j, face, lo, hi) ==
    IF lo >= hi THEN nb
    ELSE ScanCandidates_NoSelfSkip(elts, eltList,
             MatchFace(nb, i, j, eltList[lo], face, faces(At(elts, eltList[lo])), 0),
             i, j, face, lo + 1, hi)

\* The loop over elt_idx = lo .. hi-1 of the elements around face_point.
\* The break of MatchFace leaves only the inner loop: the scan goes on.
RECURSIVE ScanCandidates(_, _, _, _, _, _, _, _)
ScanCandidates(elts, eltList, nb, i, j, face, lo, hi) ==
    IF lo >= hi THEN nb
    ELSE LET elt == eltList[lo]
         IN  IF elt = i
             THEN ScanCandidates(elts, eltList, nb, i, j, face, lo + 1, hi)
             ELSE ScanCandidates(elts, eltList,
                      MatchFace(nb, i, j, elt, face, faces(At(elts, elt)), 0),
                      i, j, face, lo + 1, hi)

SearchFaceNextNode(elts, eap, nb, i, j) ==
    LET face == faces(At(elts, i))[j]
        face_point == face[1]
    IN  IF face_point + 1 \in DOMAIN eap.list_indices
        THEN ScanCandidates(elts, eap.elt_list, nb, i, j, face,
                            eap.list_indices[face_point],
                            eap.list_indices[face_point + 1])
        ELSE nb

\* The body of the two outer loops for face j of element i, whose slot is
\* still NONE: the elements around the first node of the face are scanned.
SearchFace(elts, eap, nb, i, j) ==
    LET face == faces(At(elts, i))[j]
        face_point == face[1]
    IN  ScanCandidates(elts, eap.elt_list, nb, i, j, face,
                       eap.list_indices[face_point - 1],
                       eap.list_indices[face_point])

\* The two outer loops, from slot s = i * FACES_PER_ELT + j on.
RECURSIVE NeighbourLoop(_, _, _, _)
NeighbourLoop(elts, eap, nb, s) ==
    IF s >= FACES_PER_ELT * Len(elts) THEN nb
    ELSE IF nb[s] # NONE THEN NeighbourLoop(elts, eap, nb, s + 1)
    ELSE NeighbourLoop(elts, eap,
             SearchFace(elts, eap, nb, s \div FACES_PER_ELT, s % FACES_PER_ELT),
             s + 1)

\* std::vector<int> tetrahedron_neighbours(const std::vector<Tetrahedron>&),
\* for a non-empty element list.
tetrahedron_neighbours(elts) ==
    LET element_nodes == flatten_tetrahedron_vector(elts)
        elt_indices == elements_around_points(element_nodes)
        num_elts == Cardinality(DOMAIN element_nodes) \div NODES_PER_ELT
        none == [s \in 0..(num_elts * FACES_PER_ELT - 1) |-> NONE]
    IN  IF ~elt_indices.ok THEN elt_indices
        ELSE [ok |-> TRUE, neighbours |-> NeighbourLoop(elts, elt_indices, none, 0)]

\* naive_neighbours: the loop over every other element j = lo .. size-1.
RECURSIVE NaiveScan(_, _, _, _, _, _)
NaiveScan(elts, nb, i, f, face, lo) ==
    IF lo >= Len(elts) THEN nb
    ELSE IF lo = i THEN NaiveScan(elts, nb, i, f, face, lo + 1)
    ELSE NaiveScan(elts, MatchFace(nb, i, f, lo, face, faces(At(elts, lo)), 0),
                   i, f, face, lo + 1)

RECURSIVE NaiveLoop(_, _, _)
NaiveLoop(elts, nb, s) ==
    IF s >= 4 * Len(elts) THEN nb
    ELSE IF nb[s] # NONE THEN NaiveLoop(elts, nb, s + 1)
    ELSE NaiveLoop(elts,
                   NaiveScan(elts, nb, s \div 4, s % 4, faces(At(elts, s \div 4))[s % 4], 0),
                   s + 1)

\* std::vector<int> naive_neighbours(const std::vector<Tetrahedron>&)
naive_neighbours(elts) ==
    [ok |-> TRUE,
     neighbours |-> NaiveLoop(elts, [s \in 0..(4 * Len(elts) - 1) |-> NONE], 0)]

(***************************************************************************)
(* The builder of part_002: elements_around_nodes, a list of elements per  *)
(* node, and its tetrahedron_neighbours.                                   *)
(***************************************************************************)
\* The loop of elements_around_nodes that finds max_node.
RECURSIVE MaxNodeLoop(_, _, _)
MaxNodeLoop(elts, k, max) ==
    IF k > Len(elts) THEN max
    ELSE MaxNodeLoop(elts, k + 1, IF max_node(elts[k]) > max THEN max_node(elts[k]) ELSE max)

\* The loop of elements_around_nodes with `shared_nodes[node - 1]` in place
\* of .at(node - 1), the write outside the vector taken as a write that is
\* lost.
RECURSIVE PushElements_Unchecked(_, _, _)
PushElements_Unchecked(elts, shared_nodes, k) ==
    IF k >= NODES_PER_ELT * Len(elts) THEN [ok |-> TRUE, shared_nodes |-> shared_nodes]
    ELSE LET node == nodes(At(elts, k \div NODES_PER_ELT))[k % NODES_PER_ELT]
         IN  IF ~InRange(node - 1, Cardinality(DOMAIN shared_nodes))
             THEN PushElements_Unchecked(elts, shared_nodes, k + 1)
             ELSE PushElements_Unchecked(elts,
                               [shared_nodes EXCEPT ![node - 1] =
                                   Append(@, k \div NODES_PER_ELT)],
                               k + 1)

\* shared_nodes.at(node - 1).push_back(i) for every node of every element,
\* from position k of the elements' nodes on; at() throws outside the
\* vector.
RECURSIVE PushElements(_, _, _)
PushElements(elts, shared_nodes, k) ==
    IF k >= NODES_PER_ELT * Len(elts) THEN [ok |-> TRUE, shared_nodes |-> shared_nodes]
    ELSE LET node == nodes(At(elts, k \div NODES_PER_ELT))[k % NODES_PER_ELT]
         IN  IF ~InRange(node - 1, Cardinality(DOMAIN shared_nodes))
             THEN [ok |-> FALSE, what |-> "out_of_range"]
             ELSE PushElements(elts,
                               [shared_nodes EXCEPT ![node - 1] =
                                   Append(@, k \div NODES_PER_ELT)],
                               k + 1)

\* SharedNodes elements_around_nodes(const std::vector<Tetrahedron>& elements),
\* for a non-empty element list.
elements_around_nodes(elts) ==
    PushElements(elts, [n \in 0..(MaxNodeLoop(elts, 1, -1) - 1) |-> <<>>], 0)

\* The loop `for (auto j: elts_sharing_node)` for face f of element i: the
\* list of the elements around the first node of the face is scanned as
\* the slice of the index is.
SearchFaceInList(elts, shared_nodes, nb, i, f) ==
    LET face == faces(At(elts, i))[f]
        elts_sharing_node == shared_nodes[face[1] - 1]
    IN  ScanCandidates(elts,
                       [p \in 0..(Len(elts_sharing_node) - 1) |-> elts_sharing_node[p + 1]],
                       nb, i, f, face, 0, Len(elts_sharing_node))

\* The two outer loops of the builder of part_002, from slot s on.
RECURSIVE NeighbourLoopOfLists(_, _, _, _)
NeighbourLoopOfLists(elts, shared_nodes, nb, s) ==
    IF s >= FACES_PER_ELT * Len(elts) THEN nb
    ELSE IF nb[s] # NONE THEN NeighbourLoopOfLists(elts, shared_nodes, nb, s + 1)
    ELSE NeighbourLoopOfLists(elts, shared_nodes,
             SearchFaceInList(elts, shared_nodes, nb, s \div FACES_PER_ELT,
                              s % FACES_PER_ELT),
             s + 1)

\* tetrahedron_neighbours of part_002, for a non-empty element list.
tetrahedron_neighbours_part_002(elts) ==
    LET around == elements_around_nodes(elts)
        none == [s \in 0..(Len(elts) * FACES_PER_ELT - 1) |-> NONE]
    IN  IF ~around.ok THEN around
        ELSE [ok |-> TRUE,
              neighbours |-> NeighbourLoopOfLists(elts, around.shared_nodes, none, 0)]

(***************************************************************************)
(* The builder of neighbour.h: a flag per node of the face, and a face of  *)
(* another element matches when its three nodes are flagged.               *)
(***************************************************************************)
\* The positions of the nodes of an element but the k-th, in their order:
\* the nodes of its face k.
FaceNodes(k) ==
    [q \in 1..(NODES_PER_ELT - 1) |-> IF q - 1 < k THEN q - 1 ELSE q]

\* num_shared for face other_face_idx of element elt: the flags of the nodes
\* of elt but the one at other_face_idx, added up.
NumShared(element_nodes, flag, elt, other_face_idx) ==
    LET Shared(other_face_point) ==
            IF other_face_point = other_face_idx THEN 0
            ELSE flag[element_nodes[elt * NODES_PER_ELT + other_face_point] - 1]
    IN  Shared(0) + Shared(1) + Shared(2) + Shared(3)

\* The loop over other_face_idx taking two flagged nodes for a match.
RECURSIVE MatchFlags_TwoNodes(_, _, _, _, _, _, _)
MatchFlags_TwoNodes(element_nodes, flag, nb, i, j, elt, k) ==
    IF k >= FACES_PER_ELT THEN nb
    ELSE MatchFlags_TwoNodes(element_nodes, flag,
                    IF NumShared(element_nodes, flag, elt, k) >= NODES_PER_ELT - 2
                    THEN [nb EXCEPT ![i * FACES_PER_ELT + j] = elt,
                                    ![elt * FACES_PER_ELT + k] = i]
                    ELSE nb,
                    i, j, elt, k + 1)

\* The loop over other_face_idx = k .. 3: every face with three flagged
\* nodes writes both slots; the loop has no break.
RECURSIVE MatchFlags(_, _, _, _, _, _, _)
MatchFlags(element_nodes, flag, nb, i, j, elt, k) ==
    IF k >= FACES_PER_ELT THEN nb
    ELSE MatchFlags(element_nodes, flag,
                    IF NumShared(element_nodes, flag, elt, k) = NODES_PER_ELT - 1
                    THEN [nb EXCEPT ![i * FACES_PER_ELT + j] = elt,
                                    ![elt * FACES_PER_ELT + k] = i]
                    ELSE nb,
                    i, j, elt, k + 1)

\* The loop over elt_idx = lo .. hi-1 of the elements around face_point.
RECURSIVE ScanFlagged(_, _, _, _, _, _, _, _)
ScanFlagged(element_nodes, eltList, flag, nb, i, j, lo, hi) ==
    IF lo >= hi THEN nb
    ELSE IF eltList[lo] = i
         THEN ScanFlagged(element_nodes, eltList, flag, nb, i, j, lo + 1, hi)
         ELSE ScanFlagged(element_nodes, eltList, flag,
                          MatchFlags(element_nodes, flag, nb, i, j, eltList[lo], 0),
                          i, j, lo + 1, hi)

\* The body of the two outer loops for face j of element i: the nodes of
\* the face are flagged, the elements around the first of them are scanned,
\* and the flags are reset (the flags are all 0 between two faces).
SearchFlagged(element_nodes, eap, nb, i, j) ==
    LET pts == FaceNodes(j)
        face == [q \in 1..3 |-> element_nodes[i * NODES_PER_ELT + pts[q]]]
        flag == [n \in 0..(Cardinality(DOMAIN eap.list_indices) - 2) |->
                    IF \E q \in 1..3 : face[q] - 1 = n THEN 1 ELSE 0]
        face_point == face[1]
    IN  ScanFlagged(element_nodes, eap.elt_list, flag, nb, i, j,
                    eap.list_indices[face_point - 1], eap.list_indices[face_point])

\* The two outer loops of the builder of neighbour.h, from slot s on.
RECURSIVE NeighbourLoopOfFlags(_, _, _, _)
NeighbourLoopOfFlags(element_nodes, eap, nb, s) ==
    IF s >= Cardinality(DOMAIN nb) THEN nb
    ELSE IF nb[s] # NONE THEN NeighbourLoopOfFlags(element_nodes, eap, nb, s + 1)
    ELSE NeighbourLoopOfFlags(element_nodes, eap,
             SearchFlagged(element_nodes, eap, nb, s \div FACES_PER_ELT, s % FACES_PER_ELT),
             s + 1)

\* tetrahedron_neighbours of neighbour.h, for a non-empty element list.
tetrahedron_neighbours_neighbour_h(elts) ==
    LET element_nodes == flatten_tetrahedron_vector(elts)
        elt_indices == elements_around_points(element_nodes)
        num_elts == Cardinality(DOMAIN element_nodes) \div NODES_PER_ELT
        none == [s \in 0..(num_elts * FACES_PER_ELT - 1) |-> NONE]
    IN  IF ~elt_indices.ok THEN elt_indices
        ELSE [ok |-> TRUE,
              neighbours |-> NeighbourLoopOfFlags(element_nodes, elt_indices, none, 0)]


(***************************************************************************)
(* std::istream.  A stream holds lines; a line is a sequence of pieces: a  *)
(* piece is a token (a maximal run of non-blank characters, a string) or   *)
(* " ", a run of blanks at the start or the end of the line.  Tokens of    *)
(* one line are separated by blanks.  nl tells whether the last line ends  *)
(* with a newline.  pos is the index of the next line to read, tok the     *)
(* number of pieces of that line already extracted by operator>>, and      *)
(* eof and fail are the stream's eofbit and failbit.                       *)
(***************************************************************************)
Stream(lines, nl) ==
    [lines |-> lines, nl |-> nl, pos |-> 1, tok |-> 0, eof |-> FALSE, fail |-> FALSE]

\* The value of `input` in the specifications that read no stream.
NoStream == Stream(<<>>, TRUE)

\* The decimal numerals the model writes into its streams, and their values
\* as std::istream's num_get reads them.
Numerals == <<"0", "1", "2", "3", "4", "5", "6", "7", "8", "9">>

Str(n) == IF n >= 0 THEN Numerals[n + 1] ELSE IF n = -1 THEN "-1" ELSE "-2"

IsNumeral(p) == \E n \in -2..9 : Str(n) = p

IntOf(p) == CHOOSE n \in -2..9 : Str(n) = p

\* rtrim(s): the trailing blanks are erased.
RECURSIVE rtrim(_)
rtrim(line) ==
    IF line # <<>> /\ line[Len(line)] = " "
    THEN rtrim(SubSeq(line, 1, Len(line) - 1))
    ELSE line

\* std::getline(input, line).  With eofbit or failbit set the sentry fails:
\* failbit is set and the string keeps its old value.  At the end of the
\* stream the string is erased and eofbit and failbit are set.  Reading the
\* last line sets eofbit when no newline ends it.  The rest of a line that
\* operator>> has begun is what getline returns.
getline(st, old) ==
    IF st.fail \/ st.eof
    THEN [st |-> [st EXCEPT !.fail = TRUE], line |-> old]
    ELSE IF st.pos > Len(st.lines)
    THEN [st |-> [st EXCEPT !.eof = TRUE, !.fail = TRUE], line |-> <<>>]
    ELSE [st |-> [st EXCEPT !.pos = @ + 1, !.tok = 0,
                            !.eof = (st.pos = Len(st.lines) /\ ~st.nl)],
          line |-> SubSeq(st.lines[st.pos], st.tok + 1, Len(st.lines[st.pos]))]

\* The position (line, piece) of the next token at or after the stream's
\* position, or <<0, 0>> when only blanks and line ends remain.
RECURSIVE NextToken(_, _, _)
NextToken(lines, l, k) ==
    IF l > Len(lines) THEN <<0, 0>>
    ELSE IF k > Len(lines[l]) THEN NextToken(lines, l + 1, 1)
    ELSE IF lines[l][k] = " " THEN NextToken(lines, l, k + 1)
    ELSE <<l, k>>

\* The value v under the name that F gives it: F(v).
With(v, F(_)) == F(v)

\* input >> value on the stream itself: blanks and line ends are skipped and
\* one token is taken.  With eofbit or failbit set, or with no token left,
\* nothing is taken and failbit is set (and eofbit at the end).  Taking the
\* very last characters of the stream sets eofbit.
Extract(st) ==
    IF st.fail \/ st.eof
    THEN [st |-> [st EXCEPT !.fail = TRUE], got |-> FALSE, token |-> ""]
    ELSE With(NextToken(st.lines, st.pos, st.tok + 1), LAMBDA at :
             IF at = <<0, 0>>
             THEN [st |-> [st EXCEPT !.eof = TRUE, !.fail = TRUE,
                                    !.pos = Len(st.lines) + 1, !.tok = 0],
                   got |-> FALSE, token |-> ""]
             ELSE [st |-> [st EXCEPT !.pos = at[1], !.tok = at[2],
                                    !.eof = /\ at[1] = Len(st.lines)
                                            /\ at[2] = Len(st.lines[at[1]])
                                            /\ ~st.nl],
                   got |-> TRUE, token |-> st.lines[at[1]][at[2]]])

\* input >> an int: a token that is no numeral sets failbit and stores 0; a
\* failed sentry leaves the variable as it was (`old`).
ExtractInt(st, old) ==
    With(Extract(st), LAMBDA e :
        IF ~e.got THEN [st |-> e.st, value |-> old]
        ELSE IF IsNumeral(e.token) THEN [st |-> e.st, value |-> IntOf(e.token)]
        ELSE [st |-> [e.st EXCEPT !.fail = TRUE], value |-> 0])

\* input >> a std::string: any token is taken as it is.
ExtractString(st, old) ==
    With(Extract(st), LAMBDA e :
        IF ~e.got THEN [st |-> e.st, value |-> old]
        ELSE [st |-> e.st, value |-> e.token])

\* throw std::runtime_error(what), for a message that names no tag.
Error(what) == [ok |-> FALSE, what |-> what]

(***************************************************************************)
(* parse_msh_version                                                       *)
(***************************************************************************)
parse_msh_version_AnyFlagIsBinary(st0) ==
    IF st0.fail THEN Error("bad input to parse_msh_version")
    ELSE
    With(getline(st0, <<>>), LAMBDA g1 :
        IF g1.st.eof THEN Error("unexpected end of input")
        ELSE IF rtrim(g1.line) # <<"$MeshFormat">>
        THEN Error("expected $MeshFormat")
        ELSE
        With(ExtractString(g1.st, ""), LAMBDA v :
        With(ExtractInt(v.st, -1), LAMBDA b :
        With(ExtractInt(b.st, -1), LAMBDA z :
            IF z.st.fail THEN Error("failed to parse msh version")
            ELSE IF v.value # "4.1" THEN Error("unsupported msh version")
            ELSE IF b.value # 0
            THEN Error("binary msh files are unsupported")
            ELSE IF z.value # 8 THEN Error("msh file size_t must be 8")
            ELSE
            With(getline(z.st, rtrim(g1.line)), LAMBDA g2 :
            With(getline(g2.st, g2.line), LAMBDA g3 :
                IF rtrim(g3.line) # <<"$EndMeshFormat">>
                THEN Error("expected $EndMeshFormat")
                ELSE [ok |-> TRUE, version |-> "v41", st |-> g3.st]))))))

parse_msh_version_NoEndCheck(st0) ==
    IF st0.fail THEN Error("bad input to parse_msh_version")
    ELSE
    With(getline(st0, <<>>), LAMBDA g1 :
        IF g1.st.eof THEN Error("unexpected end of input")
        ELSE IF rtrim(g1.line) # <<"$MeshFormat">>
        THEN Error("expected $MeshFormat")
        ELSE
        With(ExtractString(g1.st, ""), LAMBDA v :
        With(ExtractInt(v.st, -1), LAMBDA b :
        With(ExtractInt(b.st, -1), LAMBDA z :
            IF z.st.fail THEN Error("failed to parse msh version")
            ELSE IF v.value # "4.1" THEN Error("unsupported msh version")
            ELSE IF b.value # 0
            THEN IF b.value = 1
                 THEN Error("binary msh files are unsupported")
                 ELSE Error("failed to parse msh version")
            ELSE IF z.value # 8 THEN Error("msh file size_t must be 8")
            ELSE
            With(getline(z.st, rtrim(g1.line)), LAMBDA g2 :
            With(getline(g2.st, g2.line), LAMBDA g3 :
                [ok |-> TRUE, version |-> "v41", st |-> g3.st]))))))

\* MshVersion parse_msh_version(std::istream& input).  A stream whose badbit
\* is set (an I/O error) is not modelled.
parse_msh_version(st0) ==
    IF st0.fail THEN Error("bad input to parse_msh_version")
    ELSE
    With(getline(st0, <<>>), LAMBDA g1 :
        IF g1.st.eof THEN Error("unexpected end of input")
        ELSE IF rtrim(g1.line) # <<"$MeshFormat">>
        THEN Error("expected $MeshFormat")
        ELSE
        With(ExtractString(g1.st, ""), LAMBDA v :
        With(ExtractInt(v.st, -1), LAMBDA b :
        With(ExtractInt(b.st, -1), LAMBDA z :
            IF z.st.fail THEN Error("failed to parse msh version")
            ELSE IF v.value # "4.1" THEN Error("unsupported msh version")
            ELSE IF b.value # 0
            THEN IF b.value = 1
                 THEN Error("binary msh files are unsupported")
                 ELSE Error("failed to parse msh version")
            ELSE IF z.value # 8 THEN Error("msh file size_t must be 8")
            ELSE
            \* "eat newline", then the line that must be $EndMeshFormat
            With(getline(z.st, rtrim(g1.line)), LAMBDA g2 :
            With(getline(g2.st, g2.line), LAMBDA g3 :
                IF rtrim(g3.line) # <<"$EndMeshFormat">>
                THEN Error("expected $EndMeshFormat")
                ELSE [ok |-> TRUE, version |-> "v41", st |-> g3.st]))))))

(***************************************************************************)
(* msh41: the section parsers                                              *)
(***************************************************************************)
\* std::size_t values are held by their two's-complement reading: the
\* numeral -1 extracted into a std::size_t is SIZET_MAX, -2 is SIZET_MAX - 1.
SIZET_MAX == -1

\* std::istringstream line_stream(line)
LineStream(line) == Stream(<<line>>, FALSE)

\* line_stream >> v1 >> ... >> vn for arithmetic variables (int, double,
\* std::size_t: every numeral of the model is read whole by each of them)
\* that hold `vals` before the extraction.
RECURSIVE ExtractAll(_, _, _)
ExtractAll(st, vals, k) ==
    IF k > Len(vals) THEN [st |-> st, vals |-> vals]
    ELSE With(ExtractInt(st, vals[k]), LAMBDA e :
             ExtractAll(e.st, [vals EXCEPT ![k] = e.value], k + 1))

\* The loop of check_unique_tags from value k on: the tag whose insertion
\* into the set fails first.
RECURSIVE FirstDuplicate(_, _, _)
FirstDuplicate(values, tags, k) ==
    IF k > Len(values) THEN <<TRUE, 0>>
    ELSE IF values[k].tag \in tags THEN <<FALSE, values[k].tag>>
    ELSE FirstDuplicate(values, tags \cup {values[k].tag}, k + 1)

check_unique_tags_Never(values) == <<TRUE, 0>>

\* std::pair<bool, int> check_unique_tags(const std::vector<T>& values)
check_unique_tags(values) == FirstDuplicate(values, {}, 1)

\* for (i = 0; i < n; ++i) std::getline(input, line): n lines are skipped.
RECURSIVE SkipLines(_, _, _)
SkipLines(st, line, n) ==
    IF n <= 0 THEN [st |-> st, line |-> line]
    ELSE With(getline(st, line), LAMBDA g : SkipLines(g.st, g.line, n - 1))

MeshVolume(tag, group) == [tag |-> tag, group |-> group]

\* The body of the while loop of parse_entities for one line that is not
\* $EndEntities: the line's volume is appended to volumes, or the line throws.
EntityLine(trimmed, volumes) ==
    With(ExtractAll(LineStream(trimmed), <<-1, 0, 0, 0, 0, 0, 0, 0, -1>>, 1), LAMBDA r :
        LET tag == r.vals[1]
            num_groups == r.vals[8]
            group == r.vals[9]
        IN  IF r.st.fail
            THEN Error("$Entities parsing failed, 3d volume parsing failed")
            ELSE IF num_groups = 0
            THEN Throw("$Entities parsing failed, volume was not assigned a physical group",
                       tag)
            ELSE IF num_groups # 1
            THEN Throw("$Entities parsing failed, volume has more than one physical group",
                       tag)
            ELSE [ok |-> TRUE, volumes |-> Append(volumes, MeshVolume(tag, group))])

\* while (std::getline(input, line)) { ... }: reads volume lines up to
\* $EndEntities or to the failure of getline.
RECURSIVE EntityLoop(_, _, _)
EntityLoop(st, line, volumes) ==
    With(getline(st, line), LAMBDA g :
        IF g.st.fail THEN [ok |-> TRUE, st |-> g.st, volumes |-> volumes]
        ELSE IF rtrim(g.line) = <<"$EndEntities">>
        THEN [ok |-> TRUE, st |-> g.st, volumes |-> volumes]
        ELSE With(EntityLine(rtrim(g.line), volumes), LAMBDA v :
                 IF ~v.ok THEN v ELSE EntityLoop(g.st, rtrim(g.line), v.volumes)))

\* Lines 293-302 of parse_entities: the checks on the volumes read.
CheckedVolumes(loop, num_3d) ==
    IF ~loop.ok THEN loop
    ELSE IF Len(loop.volumes) # num_3d
    THEN Error("$Entities parsing failed, expected a number of volumes but got another")
    ELSE With(check_unique_tags(loop.volumes), LAMBDA unique_res :
             IF ~unique_res[1]
             THEN Throw("$Entities section parsing failed, found duplicate volume tag",
                        unique_res[2])
             ELSE [ok |-> TRUE, st |-> loop.st, volumes |-> loop.volumes])

\* std::vector<MeshVolume> parse_entities(std::istream& input)
parse_entities(st0) ==
    With(getline(st0, <<>>), LAMBDA g :
    With(ExtractAll(LineStream(g.line), <<-1, -1, -1, -1>>, 1), LAMBDA c :
        LET num_0d == c.vals[1]
            num_1d == c.vals[2]
            num_2d == c.vals[3]
            num_3d == c.vals[4]
        IN  IF g.st.fail \/ num_0d < 0 \/ num_1d < 0 \/ num_2d < 0 \/ num_3d < 0
            THEN Error("$Entities parsing failed")
            ELSE IF num_3d = 0 THEN Error("$Entities parsing failed, no volumes found")
            ELSE CheckedVolumes(
                     EntityLoop(SkipLines(g.st, g.line, num_0d + num_1d + num_2d).st,
                                <<>>, <<>>),
                     num_3d)))

\* Unsigned i < n for a counter i >= 0 and a std::size_t n.
ULess(i, n) == n < 0 \/ i < n

\* std::vector::reserve(n) throws std::length_error, which is no
\* std::runtime_error, when n exceeds max_size().
LengthError == [ok |-> FALSE, what |-> "std::length_error"]

\* catch (const std::runtime_error& err) { throw std::runtime_error(prefix +
\* "\n" + err.what()); }: other exceptions pass through.
Rethrow(prefix, err) ==
    IF err = LengthError THEN err
    ELSE [ok |-> FALSE, what |-> prefix, cause |-> err]

Node(tag, x, y, z) == [tag |-> tag, x |-> x, y |-> y, z |-> z]

\* The first loop of parse_node_bloc: one tag line per node.
RECURSIVE NodeTagLoop(_, _, _, _, _, _)
NodeTagLoop(st, line, i, num_nodes, entity, bloc) ==
    IF ~ULess(i, num_nodes) THEN [ok |-> TRUE, st |-> st, line |-> line, bloc |-> bloc]
    ELSE With(getline(st, line), LAMBDA g :
         With(ExtractAll(LineStream(g.line), <<SIZET_MAX>>, 1), LAMBDA r :
             IF r.st.fail \/ r.vals[1] = SIZET_MAX
             THEN Throw("Node bloc parsing failed during node tag section of entity", entity)
             ELSE NodeTagLoop(g.st, g.line, i + 1, num_nodes, entity,
                              Append(bloc, Node(r.vals[1], 0, 0, 0)))))

\* The second loop of parse_node_bloc: one line of coordinates per node.
RECURSIVE NodeCoordLoop(_, _, _, _, _, _)
NodeCoordLoop(st, line, i, num_nodes, entity, bloc) ==
    IF ~ULess(i, num_nodes) THEN [ok |-> TRUE, st |-> st, line |-> line, bloc |-> bloc]
    ELSE With(getline(st, line), LAMBDA g :
         With(ExtractAll(LineStream(g.line), <<0, 0, 0>>, 1), LAMBDA r :
             IF r.st.fail
             THEN Throw("Node bloc parsing failed during node coordinate section of entity",
                        entity)
             ELSE NodeCoordLoop(g.st, g.line, i + 1, num_nodes, entity,
                                [bloc EXCEPT ![i + 1] =
                                    Node(@.tag, r.vals[1], r.vals[2], r.vals[3])])))

\* Lines 328-361 of parse_node_bloc: the nodes of a bloc whose first line
\* has been read.
NodesOfBloc(st, line, num_nodes, entity) ==
    With(NodeTagLoop(st, line, 0, num_nodes, entity, <<>>), LAMBDA tags :
        IF ~tags.ok THEN tags
        ELSE With(NodeCoordLoop(tags.st, tags.line, 0, num_nodes, entity, tags.bloc),
                  LAMBDA coords :
                 IF ~coords.ok THEN coords
                 ELSE IF Len(coords.bloc) # num_nodes
                 THEN Throw("Node bloc parsing failed, expected a number of nodes but read another",
                            entity)
                 ELSE [ok |-> TRUE, st |-> coords.st, bloc |-> coords.bloc]))

\* std::vector<Node> parse_node_bloc(std::istream& input)
parse_node_bloc(st0) ==
    With(getline(st0, <<>>), LAMBDA g :
    With(ExtractAll(LineStream(g.line), <<-1, -1, -1, SIZET_MAX>>, 1), LAMBDA h :
        LET dim == h.vals[1]
            entity == h.vals[2]
            parametric == h.vals[3]
            num_nodes == h.vals[4]
        IN  IF h.st.fail \/ dim = -1 \/ entity = -1 \/ parametric = -1
               \/ num_nodes = SIZET_MAX
            THEN Error("Node bloc parsing failed")
            ELSE IF dim < 0 \/ dim > 3
            THEN [ok |-> FALSE, what |-> "Node bloc parsing failed, got dimension",
                  arg |-> entity, dim |-> dim]
            ELSE IF num_nodes < 0 THEN LengthError
            ELSE NodesOfBloc(g.st, g.line, num_nodes, entity)))

\* The loop over the blocs of parse_nodes.
RECURSIVE NodeBlocLoop(_, _, _, _)
NodeBlocLoop(st, i, num_blocs, read) ==
    IF ~ULess(i, num_blocs) THEN [ok |-> TRUE, st |-> st, read |-> read]
    ELSE With(parse_node_bloc(st), LAMBDA bloc_nodes :
             IF ~bloc_nodes.ok
             THEN Rethrow("$Nodes section parsing failed", bloc_nodes)
             ELSE NodeBlocLoop(bloc_nodes.st, i + 1, num_blocs, read \o bloc_nodes.bloc))

\* parse_nodes without the comparison of lines 402-405.
CheckedNodes_NoCountCheck(blocs, line, num_nodes) ==
    IF ~blocs.ok THEN blocs
    ELSE
    With(getline(blocs.st, line), LAMBDA e :
        IF rtrim(e.line) # <<"$EndNodes">>
        THEN Error("$Nodes section parsing failed, expected $EndNodes")
        ELSE With(check_unique_tags(blocs.read), LAMBDA unique_res :
                 IF ~unique_res[1]
                 THEN Throw("$Nodes section parsing failed, found duplicate node tag",
                            unique_res[2])
                 ELSE [ok |-> TRUE, st |-> e.st, read |-> blocs.read]))

\* Lines 398-413 of parse_nodes: the checks on the nodes read; `line` is
\* the first line of the section.
CheckedNodes(blocs, line, num_nodes) ==
    IF ~blocs.ok THEN blocs
    ELSE IF Len(blocs.read) # num_nodes
    THEN Error("$Nodes section parsing failed, expected a number of nodes but read another")
    ELSE
    With(getline(blocs.st, line), LAMBDA e :
        IF rtrim(e.line) # <<"$EndNodes">>
        THEN Error("$Nodes section parsing failed, expected $EndNodes")
        ELSE With(check_unique_tags(blocs.read), LAMBDA unique_res :
                 IF ~unique_res[1]
                 THEN Throw("$Nodes section parsing failed, found duplicate node tag",
                            unique_res[2])
                 ELSE [ok |-> TRUE, st |-> e.st, read |-> blocs.read]))

\* std::vector<Node> parse_nodes(std::istream& input)
parse_nodes(st0) ==
    With(getline(st0, <<>>), LAMBDA g :
    With(ExtractAll(LineStream(g.line), <<SIZET_MAX, SIZET_MAX, SIZET_MAX, SIZET_MAX>>, 1),
         LAMBDA h :
        LET num_blocs == h.vals[1]
            num_nodes == h.vals[2]
            min_tag == h.vals[3]
            max_tag == h.vals[4]
        IN  IF h.st.fail \/ num_blocs = SIZET_MAX \/ num_nodes = SIZET_MAX
               \/ min_tag = SIZET_MAX \/ max_tag = SIZET_MAX
            THEN Error("$Nodes section parsing failed, missing metadata")
            ELSE IF max_tag < 0 THEN Throw("Max node tag is too large", max_tag)
            ELSE IF num_nodes < 0 THEN LengthError
            ELSE CheckedNodes(NodeBlocLoop(g.st, 0, num_blocs, <<>>), g.line, num_nodes)))

\* The tokens of the model that hold the character ": a name in quotes,
\* the empty name in quotes, a lone quote, a token that opens a name and a
\* token that closes one.
QuoteCount(p) ==
    CASE p \in {"\"Steel\"", "\"Water\"", "\"\""} -> 2
      [] p \in {"\"", "\"Heavy", "Water\""} -> 1
      [] OTHER -> 0

\* The characters of a token after its first quote and before its last one.
AfterQuote(p) ==
    CASE p = "\"Heavy" -> "Heavy"
      [] p = "\"Steel\"" -> "Steel\""
      [] p = "\"Water\"" -> "Water\""
      [] p = "\"\"" -> "\""
      [] OTHER -> ""

BeforeQuote(p) ==
    CASE p = "Water\"" -> "Water"
      [] p = "\"Steel\"" -> "\"Steel"
      [] p = "\"Water\"" -> "\"Water"
      [] p = "\"\"" -> "\""
      [] OTHER -> ""

BetweenQuotes(p) ==
    CASE p = "\"Steel\"" -> "Steel"
      [] p = "\"Water\"" -> "Water"
      [] OTHER -> ""

\* line.find_first_of('"') and line.find_last_of('"'), as the index of the
\* piece that holds the quote; 0 is std::string::npos.
FindFirstQuote(line) ==
    IF \E k \in 1..Len(line) : QuoteCount(line[k]) > 0
    THEN CHOOSE k \in 1..Len(line) :
            /\ QuoteCount(line[k]) > 0
            /\ \A m \in 1..(k - 1) : QuoteCount(line[m]) = 0
    ELSE 0

FindLastQuote(line) ==
    IF \E k \in 1..Len(line) : QuoteCount(line[k]) > 0
    THEN CHOOSE k \in 1..Len(line) :
            /\ QuoteCount(line[k]) > 0
            /\ \A m \in (k + 1)..Len(line) : QuoteCount(line[m]) = 0
    ELSE 0

PhysicalGroup(tag, name) == [tag |-> tag, name |-> name]

\* Lines 456-469 of parse_groups: the group of a line of dimension 3, whose
\* name is the text between the first and the last quote of the line, held
\* as the pieces of that text.
NamedGroup(line, tag, name_start, name_end) ==
    IF name_start = 0
    THEN [ok |-> FALSE, what |-> "physical group names must be quoted", line |-> line]
    ELSE IF name_end = name_start /\ QuoteCount(line[name_start]) = 1
    THEN [ok |-> FALSE, what |-> "couldn't find closing quote for physical group",
          line |-> line]
    ELSE IF name_end = name_start /\ line[name_start] = "\"\""
    THEN [ok |-> FALSE, what |-> "empty physical group name", line |-> line]
    ELSE IF name_end = name_start
    THEN [ok |-> TRUE, group |-> PhysicalGroup(tag, <<BetweenQuotes(line[name_start])>>)]
    ELSE [ok |-> TRUE,
          group |-> PhysicalGroup(tag,
              <<AfterQuote(line[name_start])>>
                  \o SubSeq(line, name_start + 1, name_end - 1)
                  \o <<BeforeQuote(line[name_end])>>)]

GroupOfLine(line, tag) == NamedGroup(line, tag, FindFirstQuote(line), FindLastQuote(line))

\* while (input) { ... } of parse_groups; line, dim and tag live across the
\* iterations.
RECURSIVE GroupLoop(_, _, _, _, _)
GroupLoop(st, line, dim, tag, groups) ==
    IF st.fail THEN [ok |-> TRUE, st |-> st, groups |-> groups]
    ELSE
    With(getline(st, line), LAMBDA g :
    With(rtrim(g.line), LAMBDA trimmed :
        IF trimmed = <<"$EndPhysicalNames">>
        THEN [ok |-> TRUE, st |-> g.st, groups |-> groups]
        ELSE
        With(ExtractAll(LineStream(trimmed), <<dim, tag>>, 1), LAMBDA r :
            IF r.st.eof
            THEN Error("unexpected end of file, expected $EndPhysicalNames")
            ELSE IF r.st.fail
            THEN [ok |-> FALSE, what |-> "physical group parsing failed", line |-> trimmed]
            ELSE IF r.vals[1] # 3
            THEN GroupLoop(g.st, trimmed, r.vals[1], r.vals[2], groups)
            ELSE With(GroupOfLine(trimmed, r.vals[2]), LAMBDA grp :
                     IF ~grp.ok THEN grp
                     ELSE GroupLoop(g.st, trimmed, r.vals[1], r.vals[2],
                                    Append(groups, grp.group))))))

\* Lines 471-477 of parse_groups: the check on the groups read.
CheckedGroups(loop) ==
    IF ~loop.ok THEN loop
    ELSE With(check_unique_tags(loop.groups), LAMBDA unique_res :
             IF ~unique_res[1]
             THEN Throw("$PhysicalNames section parsing failed, found duplicate tag",
                        unique_res[2])
             ELSE [ok |-> TRUE, st |-> loop.st, groups |-> loop.groups])

\* std::vector<PhysicalGroup> parse_groups(std::istream& input)
parse_groups(st0) ==
    With(getline(st0, <<>>), LAMBDA g :
    With(ExtractAll(LineStream(g.line), <<-1>>, 1), LAMBDA h :
        IF h.st.fail \/ h.vals[1] = -1 THEN Error("$PhysicalNames parsing failed")
        ELSE IF h.vals[1] < 0 THEN LengthError
        ELSE CheckedGroups(GroupLoop(g.st, g.line, -1, -1, <<>>))))

\* msh41::Tetrahedron
MshTetrahedron(tag, volume, a, b, c, d) ==
    [tag |-> tag, volume |-> volume, a |-> a, b |-> b, c |-> c, d |-> d]

TETRAHEDRON_TYPE == 4

\* The loop of parse_element_bloc over the tetrahedra of a bloc.
RECURSIVE ElementLoop(_, _, _, _, _, _)
ElementLoop(st, line, i, num_elts, entity, elts) ==
    IF ~ULess(i, num_elts) THEN [ok |-> TRUE, st |-> st, elts |-> elts]
    ELSE With(getline(st, line), LAMBDA g :
         With(ExtractAll(LineStream(g.line), <<-1, -1, -1, -1, -1>>, 1), LAMBDA r :
             IF r.st.fail \/ \E k \in 1..5 : r.vals[k] = -1
             THEN Throw("Element bloc parsing failed for entity", entity)
             ELSE ElementLoop(g.st, g.line, i + 1, num_elts, entity,
                              Append(elts, MshTetrahedron(r.vals[1], entity, r.vals[2],
                                                          r.vals[3], r.vals[4], r.vals[5])))))

\* parse_element_bloc with the test of the element type (lines 512-516)
\* before the skip of the blocs of dimension 0, 1 and 2 (lines 504-510).
parse_element_bloc_TypeFirst(st0) ==
    With(getline(st0, <<>>), LAMBDA g :
    With(ExtractAll(LineStream(g.line), <<-1, -1, -1, SIZET_MAX>>, 1), LAMBDA h :
        LET dim == h.vals[1]
            entity == h.vals[2]
            element_type == h.vals[3]
            num_elts == h.vals[4]
        IN  IF h.st.fail \/ dim = -1 \/ entity = -1 \/ element_type = -1
               \/ num_elts = SIZET_MAX
            THEN Error("Element bloc parsing failed")
            ELSE IF dim < 0 \/ dim > 3
            THEN [ok |-> FALSE, what |-> "Element bloc parsing failed, got dimension",
                  arg |-> entity, dim |-> dim]
            ELSE IF element_type # TETRAHEDRON_TYPE
            THEN [ok |-> FALSE,
                  what |-> "Element bloc parsing failed, got non-tetrahedral mesh element type",
                  arg |-> entity, type |-> element_type]
            ELSE IF dim # 3
            THEN [ok |-> TRUE, st |-> SkipLines(g.st, g.line, num_elts).st, elts |-> <<>>]
            ELSE IF num_elts < 0 THEN LengthError
            ELSE ElementLoop(g.st, g.line, 0, num_elts, entity, <<>>)))

\* std::vector<Tetrahedron> parse_element_bloc(std::istream& input).  The
\* blocs of the model announce a number of elements below 2^63.
parse_element_bloc(st0) ==
    With(getline(st0, <<>>), LAMBDA g :
    With(ExtractAll(LineStream(g.line), <<-1, -1, -1, SIZET_MAX>>, 1), LAMBDA h :
        LET dim == h.vals[1]
            entity == h.vals[2]
            element_type == h.vals[3]
            num_elts == h.vals[4]
        IN  IF h.st.fail \/ dim = -1 \/ entity = -1 \/ element_type = -1
               \/ num_elts = SIZET_MAX
            THEN Error("Element bloc parsing failed")
            ELSE IF dim < 0 \/ dim > 3
            THEN [ok |-> FALSE, what |-> "Element bloc parsing failed, got dimension",
                  arg |-> entity, dim |-> dim]
            ELSE IF dim # 3
            THEN [ok |-> TRUE, st |-> SkipLines(g.st, g.line, num_elts).st, elts |-> <<>>]
            ELSE IF element_type # TETRAHEDRON_TYPE
            THEN [ok |-> FALSE,
                  what |-> "Element bloc parsing failed, got non-tetrahedral mesh element type",
                  arg |-> entity, type |-> element_type]
            ELSE IF num_elts < 0 THEN LengthError
            ELSE ElementLoop(g.st, g.line, 0, num_elts, entity, <<>>)))

\* The loop over the blocs of parse_elements.
RECURSIVE ElementBlocLoop(_, _, _, _)
ElementBlocLoop(st, i, num_blocs, elts) ==
    IF ~ULess(i, num_blocs) THEN [ok |-> TRUE, st |-> st, elts |-> elts]
    ELSE With(parse_element_bloc(st), LAMBDA bloc_elts :
             IF ~bloc_elts.ok
             THEN Rethrow("$Elements section parsing failed", bloc_elts)
             ELSE ElementBlocLoop(bloc_elts.st, i + 1, num_blocs, elts \o bloc_elts.elts))

\* Lines 572-587 of parse_elements: the checks on the elements read; `line`
\* is the first line of the section.
CheckedElements(blocs, line) ==
    IF ~blocs.ok THEN blocs
    ELSE
    With(getline(blocs.st, line), LAMBDA e :
        IF rtrim(e.line) # <<"$EndElements">>
        THEN Error("$Elements section parsing failed, expected $EndElements")
        ELSE IF Len(blocs.elts) = 0
        THEN Error("$Elements section parsing failed, no tetrahedral elements were read")
        ELSE With(check_unique_tags(blocs.elts), LAMBDA unique_res :
                 IF ~unique_res[1]
                 THEN Throw("$Elements section parsing failed, found duplicate tetrahedron tag",
                            unique_res[2])
                 ELSE [ok |-> TRUE, st |-> e.st, elts |-> blocs.elts]))

\* std::vector<Tetrahedron> parse_elements(std::istream& input)
parse_elements(st0) ==
    With(getline(st0, <<>>), LAMBDA g :
    With(ExtractAll(LineStream(g.line), <<SIZET_MAX, SIZET_MAX, SIZET_MAX, SIZET_MAX>>, 1),
         LAMBDA h :
        IF h.st.fail \/ \E k \in 1..4 : h.vals[k] = SIZET_MAX
        THEN Error("$Elements section parsing failed, missing metadata")
        ELSE IF h.vals[2] < 0 THEN LengthError
        ELSE CheckedElements(ElementBlocLoop(g.st, 0, h.vals[1], <<>>), g.line)))

\* The vectors nodes, volumes, groups and elements of parse_body.
NoSections == [nodes |-> <<>>, volumes |-> <<>>, groups |-> <<>>, elements |-> <<>>]

\* The loop of parse_body without the break of lines 604-606: $MeshFormat
\* is passed over as a line that opens no known section.
RECURSIVE BodyLoop_NoBreak(_, _, _)
BodyLoop_NoBreak(st, input_line, body) ==
    With(getline(st, input_line), LAMBDA g :
    With(rtrim(g.line), LAMBDA trimmed :
        IF g.st.fail THEN [ok |-> TRUE, body |-> body]
        ELSE IF trimmed = <<"$Entities">>
        THEN With(parse_entities(g.st), LAMBDA r :
                 IF ~r.ok THEN r
                 ELSE BodyLoop_NoBreak(r.st, trimmed, [body EXCEPT !.volumes = r.volumes]))
        ELSE IF trimmed = <<"$PhysicalNames">>
        THEN With(parse_groups(g.st), LAMBDA r :
                 IF ~r.ok THEN r
                 ELSE BodyLoop_NoBreak(r.st, trimmed, [body EXCEPT !.groups = r.groups]))
        ELSE IF trimmed = <<"$Nodes">>
        THEN With(parse_nodes(g.st), LAMBDA r :
                 IF ~r.ok THEN r
                 ELSE BodyLoop_NoBreak(r.st, trimmed, [body EXCEPT !.nodes = r.read]))
        ELSE IF trimmed = <<"$Elements">>
        THEN With(parse_elements(g.st), LAMBDA r :
                 IF ~r.ok THEN r
                 ELSE BodyLoop_NoBreak(r.st, trimmed, [body EXCEPT !.elements = r.elts]))
        ELSE BodyLoop_NoBreak(g.st, trimmed, body)))

\* The loop of parse_body with a section that is read appended to what its
\* vector held.
RECURSIVE BodyLoop_Merge(_, _, _)
BodyLoop_Merge(st, input_line, body) ==
    With(getline(st, input_line), LAMBDA g :
    With(rtrim(g.line), LAMBDA trimmed :
        IF g.st.fail THEN [ok |-> TRUE, body |-> body]
        ELSE IF trimmed = <<"$MeshFormat">> THEN [ok |-> TRUE, body |-> body]
        ELSE IF trimmed = <<"$Entities">>
        THEN With(parse_entities(g.st), LAMBDA r :
                 IF ~r.ok THEN r
                 ELSE BodyLoop_Merge(r.st, trimmed,
                          [body EXCEPT !.volumes = @ \o r.volumes]))
        ELSE IF trimmed = <<"$PhysicalNames">>
        THEN With(parse_groups(g.st), LAMBDA r :
                 IF ~r.ok THEN r
                 ELSE BodyLoop_Merge(r.st, trimmed,
                          [body EXCEPT !.groups = @ \o r.groups]))
        ELSE IF trimmed = <<"$Nodes">>
        THEN With(parse_nodes(g.st), LAMBDA r :
                 IF ~r.ok THEN r
                 ELSE BodyLoop_Merge(r.st, trimmed,
                          [body EXCEPT !.nodes = @ \o r.read]))
        ELSE IF trimmed = <<"$Elements">>
        THEN With(parse_elements(g.st), LAMBDA r :
                 IF ~r.ok THEN r
                 ELSE BodyLoop_Merge(r.st, trimmed,
                          [body EXCEPT !.elements = @ \o r.elts]))
        ELSE BodyLoop_Merge(g.st, trimmed, body)))

\* while (std::getline(input, input_line)) { ... } of parse_body: a section
\* that is read replaces what its vector held, a line that opens no known
\* section is passed over, and $MeshFormat or the failure of getline ends
\* the loop.
RECURSIVE BodyLoop(_, _, _)
BodyLoop(st, input_line, body) ==
    With(getline(st, input_line), LAMBDA g :
    With(rtrim(g.line), LAMBDA trimmed :
        IF g.st.fail THEN [ok |-> TRUE, body |-> body]
        ELSE IF trimmed = <<"$MeshFormat">> THEN [ok |-> TRUE, body |-> body]
        ELSE IF trimmed = <<"$Entities">>
        THEN With(parse_entities(g.st), LAMBDA r :
                 IF ~r.ok THEN r
                 ELSE BodyLoop(r.st, trimmed, [body EXCEPT !.volumes = r.volumes]))
        ELSE IF trimmed = <<"$PhysicalNames">>
        THEN With(parse_groups(g.st), LAMBDA r :
                 IF ~r.ok THEN r
                 ELSE BodyLoop(r.st, trimmed, [body EXCEPT !.groups = r.groups]))
        ELSE IF trimmed = <<"$Nodes">>
        THEN With(parse_nodes(g.st), LAMBDA r :
                 IF ~r.ok THEN r
                 ELSE BodyLoop(r.st, trimmed, [body EXCEPT !.nodes = r.read]))
        ELSE IF trimmed = <<"$Elements">>
        THEN With(parse_elements(g.st), LAMBDA r :
                 IF ~r.ok THEN r
                 ELSE BodyLoop(r.st, trimmed, [body EXCEPT !.elements = r.elts]))
        ELSE BodyLoop(g.st, trimmed, body)))

\* The first volume whose group is no tag of groups, or 0.
UnknownGroup(volumes, groups) ==
    IF \E k \in 1..Len(volumes) : \A g \in 1..Len(groups) : groups[g].tag # volumes[k].group
    THEN CHOOSE k \in 1..Len(volumes) :
            /\ \A g \in 1..Len(groups) : groups[g].tag # volumes[k].group
            /\ \A m \in 1..(k - 1) : \E g \in 1..Len(groups) :
                  groups[g].tag = volumes[m].group
    ELSE 0

\* element_groups filled with the tag of the volume in place of
\* elt_group->second (line 654).
VolumeGroup_VolumeTag(volumes, tag) == tag

\* volume_groups.find(tag): the group of the first volume inserted with the
\* tag (insert keeps the first), or NONE at end().
VolumeGroup(volumes, tag) ==
    IF \E k \in 1..Len(volumes) : volumes[k].tag = tag
    THEN volumes[CHOOSE k \in 1..Len(volumes) :
                    /\ volumes[k].tag = tag
                    /\ \A m \in 1..(k - 1) : volumes[m].tag # tag].group
    ELSE NONE

\* parse_body without the test of lines 650-652.
UnknownVolume_Never(elts, volumes) == 0

\* The first element whose volume is no tag of volumes, or 0.
UnknownVolume(elts, volumes) ==
    IF \E k \in 1..Len(elts) : \A v \in 1..Len(volumes) : volumes[v].tag # elts[k].volume
    THEN CHOOSE k \in 1..Len(elts) :
            /\ \A v \in 1..Len(volumes) : volumes[v].tag # elts[k].volume
            /\ \A m \in 1..(k - 1) : \E v \in 1..Len(volumes) :
                  volumes[v].tag = elts[m].volume
    ELSE 0

\* A mesh that holds its elements and its nodes last to first.
EGS_Mesh_Reversed(mesh_elts, mesh_nodes, media) ==
    [ok |-> TRUE,
     elements |-> [k \in 1..Len(mesh_elts) |-> mesh_elts[Len(mesh_elts) + 1 - k]],
     nodes |-> [k \in 1..Len(mesh_nodes) |-> mesh_nodes[Len(mesh_nodes) + 1 - k]],
     materials |-> media]

\* EGS_Mesh(mesh_elts, mesh_nodes, media)
EGS_Mesh(mesh_elts, mesh_nodes, media) ==
    [ok |-> TRUE, elements |-> mesh_elts, nodes |-> mesh_nodes, materials |-> media]

\* parse_body without the test of lines 620-622.
Assemble_NoNodesCheck(body) ==
    IF body.volumes = <<>> THEN Error("No volumes were parsed")
    ELSE IF body.groups = <<>> THEN Error("No groups were parsed")
    ELSE IF body.elements = <<>> THEN Error("No tetrahedrons were parsed")
    ELSE
    LET v == UnknownGroup(body.volumes, body.groups)
        e == UnknownVolume(body.elements, body.volumes)
    IN  IF v # 0
        THEN [ok |-> FALSE, what |-> "volume had unknown physical group tag",
              arg |-> body.volumes[v].tag, group |-> body.volumes[v].group]
        ELSE IF e # 0
        THEN [ok |-> FALSE, what |-> "tetrahedron had unknown volume tag",
              arg |-> body.elements[e].tag, volume |-> body.elements[e].volume]
        ELSE EGS_Mesh(
                [i \in 1..Len(body.elements) |->
                    [medium_tag |-> VolumeGroup(body.volumes, body.elements[i].volume),
                     a |-> body.elements[i].a, b |-> body.elements[i].b,
                     c |-> body.elements[i].c, d |-> body.elements[i].d]],
                [i \in 1..Len(body.nodes) |-> body.nodes[i]],
                [i \in 1..Len(body.groups) |->
                    [tag |-> body.groups[i].tag, medium_name |-> body.groups[i].name]])

\* Lines 617-681 of parse_body: the checks on the four vectors and the mesh
\* that is made of them.
Assemble(body) ==
    IF body.volumes = <<>> THEN Error("No volumes were parsed")
    ELSE IF body.nodes = <<>> THEN Error("No nodes were parsed")
    ELSE IF body.groups = <<>> THEN Error("No groups were parsed")
    ELSE IF body.elements = <<>> THEN Error("No tetrahedrons were parsed")
    ELSE
    LET v == UnknownGroup(body.volumes, body.groups)
        e == UnknownVolume(body.elements, body.volumes)
    IN  IF v # 0
        THEN [ok |-> FALSE, what |-> "volume had unknown physical group tag",
              arg |-> body.volumes[v].tag, group |-> body.volumes[v].group]
        ELSE IF e # 0
        THEN [ok |-> FALSE, what |-> "tetrahedron had unknown volume tag",
              arg |-> body.elements[e].tag, volume |-> body.elements[e].volume]
        ELSE EGS_Mesh(
                [i \in 1..Len(body.elements) |->
                    [medium_tag |-> VolumeGroup(body.volumes, body.elements[i].volume),
                     a |-> body.elements[i].a, b |-> body.elements[i].b,
                     c |-> body.elements[i].c, d |-> body.elements[i].d]],
                [i \in 1..Len(body.nodes) |-> body.nodes[i]],
                [i \in 1..Len(body.groups) |->
                    [tag |-> body.groups[i].tag, medium_name |-> body.groups[i].name]])

\* EGS_Mesh parse_body(std::istream& input)
parse_body(st0) ==
    With(BodyLoop(st0, <<>>, NoSections), LAMBDA loop :
        IF ~loop.ok THEN loop ELSE Assemble(loop.body))

\* EGS_Mesh parse_msh_file(std::istream& input)
parse_msh_file(st0) ==
    With(parse_msh_version(st0), LAMBDA version :
        IF ~version.ok THEN version
        ELSE With(parse_body(version.st), LAMBDA mesh :
                 IF ~mesh.ok THEN Rethrow("msh 4.1 parsing failed", mesh) ELSE mesh))

(***************************************************************************)
(* SpecTet: one construction of a Tetrahedron from four integers.          *)
(***************************************************************************)
ArgRange == -1..MaxArg

InitTet ==
    /\ ctor_args \in [1..4 -> ArgRange]
    /\ ctor_res = NotRun
    /\ elements = <<>>
    /\ nbrs = NotRun
    /\ naive = NotRun
    /\ input = NoStream
    /\ parsed = NotRun
    /\ index = NotRun
    /\ shared = NotRun
    /\ flag_nbrs = NotRun
    /\ list_nbrs = NotRun

\* mesh_neighbours::Tetrahedron(a, b, c, d) is evaluated.
Construct ==
    /\ ctor_res = NotRun
    /\ ctor_res' = Tetrahedron(ctor_args[1], ctor_args[2], ctor_args[3], ctor_args[4])
    /\ UNCHANGED <<ctor_args, nbrVars, parseVars, idxVars>>

NextTet == Construct

SpecTet == InitTet /\ [][NextTet]_vars

(***************************************************************************)
(* SpecNbr: the test's use of the builder.  Elements are constructed and   *)
(* appended to neighbour_elts one by one, then tetrahedron_neighbours and  *)
(* the naive baseline are evaluated on the list.                           *)
(***************************************************************************)
\* The node sets of the elements.  Every element that holds tag 0 takes the
\* same path (the index throws), so one such set stands for them all.
TagSets ==
    {S \in SUBSET (0..MaxTag) : Cardinality(S) = 4 /\ (0 \in S => S = 0..3)}

RECURSIVE Ascending(_)
Ascending(S) ==
    IF S = {} THEN <<>>
    ELSE LET m == CHOOSE x \in S : \A y \in S : x <= y
         IN  <<m>> \o Ascending(S \ {m})

Reverse(s) == [k \in 1..Len(s) |-> s[Len(s) + 1 - k]]

InitNbr ==
    /\ ctor_args = [k \in 1..4 |-> 0]
    /\ ctor_res = NotRun
    /\ elements = <<>>
    /\ nbrs = NotRun
    /\ naive = NotRun
    /\ input = NoStream
    /\ parsed = NotRun
    /\ index = NotRun
    /\ shared = NotRun
    /\ flag_nbrs = NotRun
    /\ list_nbrs = NotRun

\* neighbour_elts.emplace_back(mesh_neighbours::Tetrahedron(elt.a, elt.b, elt.c, elt.d))
EmplaceBack ==
    /\ nbrs = NotRun
    /\ Len(elements) < MaxTets
    /\ \E S \in TagSets, descending \in BOOLEAN :
          LET asc == Ascending(S)
              arg == IF descending THEN Reverse(asc) ELSE asc
              t == Tetrahedron(arg[1], arg[2], arg[3], arg[4])
          IN  /\ t.ok
              /\ elements' = Append(elements, t)
    /\ UNCHANGED <<tetVars, nbrs, naive, parseVars, idxVars>>

\* auto nbrs = tetrahedron_neighbours(neighbour_elts);
\* assert(nbrs == naive_neighbours(neighbour_elts));
\* The parser hands over at least one element (parse_elements throws on none).
FindNeighbours ==
    /\ nbrs = NotRun
    /\ Len(elements) > 0
    /\ nbrs' = tetrahedron_neighbours(elements)
    /\ naive' = IF nbrs'.ok THEN naive_neighbours(elements) ELSE NotRun
    /\ UNCHANGED <<tetVars, elements, parseVars, idxVars>>

NextNbr == EmplaceBack \/ FindNeighbours

SpecNbr == InitNbr /\ [][NextNbr]_vars

(***************************************************************************)
(* SpecIndex: the two indices of the elements around the nodes, built on   *)
(* a list of elements.                                                     *)
(***************************************************************************)
\* neighbour_elts.emplace_back(...), before the indices are built.
EmplaceForIndex ==
    /\ index = NotRun
    /\ Len(elements) < MaxTets
    /\ \E S \in TagSets :
          LET asc == Ascending(S)
              t == Tetrahedron(asc[4], asc[3], asc[2], asc[1])
          IN  /\ t.ok
              /\ elements' = Append(elements, t)
    /\ UNCHANGED <<tetVars, nbrs, naive, parseVars, idxVars>>

\* const auto elt_indices = elements_around_points(element_nodes);
\* const auto shared_nodes = elements_around_nodes(elements);
BuildIndex ==
    /\ index = NotRun
    /\ Len(elements) > 0
    /\ index' = elements_around_points(flatten_tetrahedron_vector(elements))
    /\ shared' = elements_around_nodes(elements)
    /\ UNCHANGED <<tetVars, nbrVars, parseVars, flag_nbrs, list_nbrs>>

NextIndex == EmplaceForIndex \/ BuildIndex

SpecIndex == InitNbr /\ [][NextIndex]_vars

(***************************************************************************)
(* SpecBuilders: the three builders of the neighbour table on one list of  *)
(* elements.                                                               *)
(***************************************************************************)
EmplaceForBuilders ==
    /\ nbrs = NotRun
    /\ Len(elements) < MaxTets
    /\ \E S \in TagSets :
          LET asc == Ascending(S)
              t == Tetrahedron(asc[2], asc[4], asc[1], asc[3])
          IN  /\ t.ok
              /\ elements' = Append(elements, t)
    /\ UNCHANGED <<tetVars, nbrs, naive, parseVars, idxVars>>

\* auto nbrs = mesh_neighbours::tetrahedron_neighbours(neighbour_elts), with
\* each of the three headers.
BuildTables ==
    /\ nbrs = NotRun
    /\ Len(elements) > 0
    /\ nbrs' = tetrahedron_neighbours(elements)
    /\ flag_nbrs' = tetrahedron_neighbours_neighbour_h(elements)
    /\ list_nbrs' = tetrahedron_neighbours_part_002(elements)
    /\ index' = elements_around_points(flatten_tetrahedron_vector(elements))
    /\ shared' = elements_around_nodes(elements)
    /\ UNCHANGED <<tetVars, elements, naive, parseVars>>

NextBuilders == EmplaceForBuilders \/ BuildTables

SpecBuilders == InitNbr /\ [][NextBuilders]_vars

(***************************************************************************)
(* SpecFaces: elements constructed from their four node tags given in      *)
(* several orders, as the lines of $Elements give them.                    *)
(***************************************************************************)
MaxFaceElts == 2

\* The orders in which the four tags of an element are given.
ArgOrders == {<<1, 2, 3, 4>>, <<4, 3, 2, 1>>, <<2, 4, 1, 3>>, <<3, 1, 4, 2>>}

\* neighbour_elts.emplace_back(mesh_neighbours::Tetrahedron(elt.a, elt.b, elt.c, elt.d))
EmplaceForFaces ==
    /\ Len(elements) < MaxFaceElts
    /\ \E S \in TagSets, order \in ArgOrders :
          LET asc == Ascending(S)
              arg == [k \in 1..4 |-> asc[order[k]]]
              t == Tetrahedron(arg[1], arg[2], arg[3], arg[4])
          IN  /\ t.ok
              /\ ctor_args' = arg
              /\ elements' = Append(elements, t)
    /\ UNCHANGED <<ctor_res, nbrs, naive, parseVars, idxVars>>

SpecFaces == InitNbr /\ [][EmplaceForFaces]_vars

(***************************************************************************)
(* SpecHeader: parse_msh_version on one stream.                            *)
(***************************************************************************)
\* Largest binary flag written into a header.
MaxFlag == 2

FirstLines == {<<"$MeshFormat">>, <<"$MeshFormat", " ">>, <<" ", "$MeshFormat">>, <<"$Nodes">>}

EndLines == {<<"$EndMeshFormat">>, <<"$EndMeshFormat", " ">>, <<"$EndNodes">>, <<>>}

VersionTokens == {"4.1", "4.0"}

FlagTokens == {Str(n) : n \in -1..MaxFlag} \cup {"x"}

SizeTokens == {"8", "4"}

\* The lines that carry the first n of the three tokens: on one line, one
\* token per line, or on one line that goes on with a further word.
TokenLines(toks, n, layout) ==
    LET some == SubSeq(toks, 1, n)
    IN  CASE layout = "one line" -> IF n = 0 THEN <<>> ELSE <<some>>
          [] layout = "line each" -> [k \in 1..n |-> <<some[k]>>]
          [] OTHER -> <<some \o <<"more">> >>

\* The streams handed to parse_msh_version: a first line, up to three tokens,
\* a closing line (or none) and perhaps the first line of the body; and the
\* stream of a file that could not be opened (empty, failbit set).
HeaderStreams ==
    {Stream(<<first>> \o TokenLines(<<v, b, z>>, n, layout)
                      \o (IF closing THEN <<last>> ELSE <<>>)
                      \o (IF body THEN <<<<"$Nodes">>>> ELSE <<>>), nl) :
        first \in FirstLines, v \in VersionTokens, b \in FlagTokens, z \in SizeTokens,
        n \in 0..3, layout \in {"one line", "line each", "junk"},
        closing \in BOOLEAN, last \in EndLines, body \in BOOLEAN, nl \in BOOLEAN}
    \cup {Stream(<<>>, TRUE), [Stream(<<>>, TRUE) EXCEPT !.fail = TRUE]}

InitHeader ==
    /\ ctor_args = [k \in 1..4 |-> 0]
    /\ ctor_res = NotRun
    /\ elements = <<>>
    /\ nbrs = NotRun
    /\ naive = NotRun
    /\ input \in HeaderStreams
    /\ parsed = NotRun
    /\ index = NotRun
    /\ shared = NotRun
    /\ flag_nbrs = NotRun
    /\ list_nbrs = NotRun

\* auto version = msh_parser::internal::parse_msh_version(input);
ParseVersion ==
    /\ parsed = NotRun
    /\ parsed' = parse_msh_version(input)
    /\ UNCHANGED <<tetVars, nbrVars, input, idxVars>>

NextHeader == ParseVersion

SpecHeader == InitHeader /\ [][NextHeader]_vars

(***************************************************************************)
(* SpecEntities: parse_entities on one stream, positioned after the        *)
(* $Entities line.                                                         *)
(***************************************************************************)
\* Largest number of volume lines of an $Entities section.
MaxVols == 2

\* A volume line: tag, bounding box, number of physical groups, and the
\* integers that follow it (group tags, then the bounding surfaces).
VolumeLine(tag, ngroups, rest) ==
    <<Str(tag), "0", "0", "0", "1", "1", "1", Str(ngroups)>> \o rest

\* Volume lines of no group, of one group and of two groups, and the line of
\* no group that ends with its count.
VolumeLines ==
    {VolumeLine(tag, n, <<"1">>) : tag \in {1, 2}, n \in {0, 1, 2}}
    \cup {VolumeLine(tag, 0, <<>>) : tag \in {1, 2}}

SeqsUpTo(S, n) == UNION {[1..k -> S] : k \in 0..n}

\* How the section ends: with its marker and more of the file, with its
\* marker as the last line of the file, or with the end of the file in the
\* place of the marker, after a newline or without one.
SectionEnds == {"marker", "marker at end", "end of file", "end of file, no newline"}

Closing(marker, how) ==
    CASE how = "marker" -> <<<<marker>>, <<"$Comments">>>>
      [] how = "marker at end" -> <<<<marker, " ">>>>
      [] OTHER -> <<>>

EndsWithNewline(how) == how # "end of file, no newline"

\* The first line of the section for `n` volume lines and `low` entities of
\* lower dimension: right, one volume too many, no volume, or a token short.
CountLines(low, n) ==
    {<<Str(low), "0", "0", Str(n)>>, <<Str(low), "0", "0", Str(n + 1)>>,
     <<Str(low), "0", "0", "0">>, <<Str(low), "0", Str(n)>>}

PointLine == <<"1", "0", "0", "0", "0">>

EntityStreams ==
    UNION {{Stream(<<counts>> \o [k \in 1..low |-> PointLine] \o vols
                              \o Closing("$EndEntities", how), EndsWithNewline(how)) :
               counts \in CountLines(low, Len(vols)), how \in SectionEnds} :
           low \in 0..1, vols \in SeqsUpTo(VolumeLines, MaxVols)}

InitEntities ==
    /\ ctor_args = [k \in 1..4 |-> 0]
    /\ ctor_res = NotRun
    /\ elements = <<>>
    /\ nbrs = NotRun
    /\ naive = NotRun
    /\ input \in EntityStreams
    /\ parsed = NotRun
    /\ index = NotRun
    /\ shared = NotRun
    /\ flag_nbrs = NotRun
    /\ list_nbrs = NotRun

\* volumes = parse_entities(input);
ParseEntities ==
    /\ parsed = NotRun
    /\ parsed' = parse_entities(input)
    /\ UNCHANGED <<tetVars, nbrVars, input, idxVars>>

NextEntities == ParseEntities

SpecEntities == InitEntities /\ [][NextEntities]_vars

(***************************************************************************)
(* SpecFile: parse_msh_file on one file.  The files are a header followed  *)
(* by one section, drawn from a wide set of sections of each kind, or by   *)
(* several sections drawn from a few of each kind.                         *)
(***************************************************************************)
\* Largest number of nodes of a node bloc, of lines of a $PhysicalNames
\* section and of elements of an element bloc.
MaxBlocNodes == 2
MaxGroups == 2
MaxBlocElts == 2

RECURSIVE ConcatAll(_)
ConcatAll(seqs) == IF seqs = <<>> THEN <<>> ELSE Head(seqs) \o ConcatAll(Tail(seqs))

RECURSIVE SumLen(_)
SumLen(seqs) == IF seqs = <<>> THEN 0 ELSE Len(Head(seqs)) + SumLen(Tail(seqs))

NonEmptySeqsUpTo(S, n) == UNION {[1..k -> S] : k \in 1..n}

\* The b-th node bloc of a section, of volume 1, with the given node tags:
\* the k-th node of the bloc is at (k, b, 0).
NodeBlocLines(b, tags) ==
    <<<<"3", "1", "0", Str(Len(tags))>>>>
        \o [k \in 1..Len(tags) |-> <<Str(tags[k])>>]
        \o [k \in 1..Len(tags) |-> <<Str(k), Str(b), "0">>]

\* The lines of a $Nodes section after $Nodes: its blocs, and `off` more
\* nodes announced than the blocs hold.
NodeLines(blocs, off) ==
    <<<<Str(Len(blocs)), Str(SumLen(blocs) + off), "1", "2">>>>
        \o ConcatAll([k \in 1..Len(blocs) |-> NodeBlocLines(k, blocs[k])])

NodeBlocs == NonEmptySeqsUpTo(SeqsUpTo({1, 2}, MaxBlocNodes), 2)

GoodEnds == {"marker", "marker at end"}

GoodNodeStreams ==
    {Stream(NodeLines(blocs, 0) \o Closing("$EndNodes", how), TRUE) :
        blocs \in NodeBlocs, how \in GoodEnds}

NodeStreams ==
    GoodNodeStreams
    \cup {Stream(NodeLines(blocs, off) \o Closing("$EndNodes", "marker"), TRUE) :
             blocs \in NodeBlocs, off \in {-1, 1}}
    \cup {Stream(NodeLines(blocs, 0) \o Closing("$EndNodes", how), EndsWithNewline(how)) :
             blocs \in NodeBlocs, how \in SectionEnds \ GoodEnds}

GroupLine(dim, tag, name) == <<Str(dim), Str(tag), name>>

GoodGroupLines ==
    {GroupLine(dim, tag, name) :
        dim \in {2, 3}, tag \in {1, 2}, name \in {"\"Steel\"", "\"Water\""}}

GroupLines(lines) == <<<<Str(Len(lines))>>>> \o lines

GoodGroupStreams ==
    {Stream(GroupLines(lines) \o Closing("$EndPhysicalNames", how), TRUE) :
        lines \in SeqsUpTo(GoodGroupLines, MaxGroups), how \in GoodEnds}

GroupStreams ==
    GoodGroupStreams
    \cup {Stream(GroupLines(lines) \o Closing("$EndPhysicalNames", how),
                 EndsWithNewline(how)) :
             lines \in SeqsUpTo(GoodGroupLines \cup {<<"3", "1">>, <<"3", "1", "Steel">>},
                                MaxGroups),
             how \in SectionEnds}

\* An element bloc of volume 1: tetrahedra on the nodes 1, 2, 3, 4 for
\* dimension 3, triangles on the nodes 1, 2, 3 for dimension 2.
ElementBlocLines(dim, tags) ==
    IF dim = 3
    THEN <<<<"3", "1", "4", Str(Len(tags))>>>>
            \o [k \in 1..Len(tags) |-> <<Str(tags[k]), "1", "2", "3", "4">>]
    ELSE <<<<"2", "1", "2", Str(Len(tags))>>>>
            \o [k \in 1..Len(tags) |-> <<Str(tags[k]), "1", "2", "3">>]

ElementLines(blocs) ==
    <<<<Str(Len(blocs)), Str(SumLen([k \in 1..Len(blocs) |-> blocs[k][2]])), "1", "2">>>>
        \o ConcatAll([k \in 1..Len(blocs) |-> ElementBlocLines(blocs[k][1], blocs[k][2])])

ElementBlocs == NonEmptySeqsUpTo({2, 3} \X SeqsUpTo({1, 2}, MaxBlocElts), 2)

GoodElementStreams ==
    {Stream(ElementLines(blocs) \o Closing("$EndElements", how), TRUE) :
        blocs \in ElementBlocs, how \in GoodEnds}

ElementStreams ==
    GoodElementStreams
    \cup {Stream(ElementLines(blocs) \o Closing("$EndElements", how), EndsWithNewline(how)) :
             blocs \in ElementBlocs, how \in SectionEnds \ GoodEnds}

\* The $Entities sections whose first line is right and whose volume lines
\* each carry one group.
GoodEntityStreams ==
    {Stream(<<<<Str(low), "0", "0", Str(Len(vols))>>>> \o [k \in 1..low |-> PointLine]
                \o vols \o Closing("$EndEntities", how), TRUE) :
        low \in 0..1,
        vols \in NonEmptySeqsUpTo({VolumeLine(tag, 1, <<"1">>) : tag \in {1, 2}}, MaxVols),
        how \in GoodEnds}

Header == <<<<"$MeshFormat">>, <<"4.1", "0", "8">>, <<"$EndMeshFormat">>>>

\* The file made of the header, the line that opens a section and the
\* section's stream.
FileOf(name, st) == Stream(Header \o <<<<name>>>> \o st.lines, st.nl)

\* The files of one section; the $Entities sections that are not right are
\* those of SpecEntities.
OneSectionFiles ==
    {FileOf("$Entities", st) : st \in GoodEntityStreams}
    \cup {FileOf("$Nodes", st) : st \in NodeStreams}
    \cup {FileOf("$PhysicalNames", st) : st \in GroupStreams}
    \cup {FileOf("$Elements", st) : st \in ElementStreams}

GoodOneSectionFiles ==
    {FileOf("$Entities", st) : st \in GoodEntityStreams}
    \cup {FileOf("$Nodes", st) : st \in GoodNodeStreams}
    \cup {FileOf("$PhysicalNames", st) : st \in GoodGroupStreams}
    \cup {FileOf("$Elements", st) : st \in GoodElementStreams}

\* A section with its opening and closing lines.
Section(name, lines, marker) == <<<<name>>>> \o lines \o <<<<marker>>>>

\* A few sections of each kind; the last of each has a tag twice.
EntitySections ==
    {Section("$Entities", <<<<"0", "0", "0", Str(Len(vols))>>>> \o vols, "$EndEntities") :
        vols \in {<<VolumeLine(1, 1, <<"1">>)>>,
                  <<VolumeLine(1, 1, <<"1">>), VolumeLine(2, 1, <<"2">>)>>,
                  <<VolumeLine(1, 1, <<"1">>), VolumeLine(1, 1, <<"2">>)>>}}

GroupSections ==
    {Section("$PhysicalNames", GroupLines(lines), "$EndPhysicalNames") :
        lines \in {<<GroupLine(3, 1, "\"Steel\"")>>,
                   <<GroupLine(2, 1, "\"Steel\""), GroupLine(3, 1, "\"Steel\""),
                     GroupLine(3, 2, "\"Water\"")>>,
                   <<GroupLine(3, 1, "\"Steel\""), GroupLine(3, 1, "\"Water\"")>>}}

NodeSections ==
    {Section("$Nodes", NodeLines(blocs, 0), "$EndNodes") :
        blocs \in {<<<<1, 2, 3, 4>>>>, <<<<1, 2>>, <<3>>>>, <<<<1, 2>>, <<3, 1>>>>}}

ElementSections ==
    {Section("$Elements", ElementLines(blocs), "$EndElements") :
        blocs \in {<<<<3, <<1>>>>>>, <<<<2, <<1>>>>, <<3, <<1, 2>>>>>>, <<<<3, <<1>>>>, <<3, <<1>>>>>>}}

\* What a file may hold besides one section of each kind: nothing, one more
\* section, a section of no known kind, or the start of another mesh.
MoreSections ==
    {<<>>, <<<<"$Comments">>, <<"made", "by", "hand">>, <<"$EndComments">>>>, <<<<"$MeshFormat">>>>}
    \cup EntitySections \cup GroupSections \cup NodeSections \cup ElementSections

\* One section of each kind or none, in the order of Gmsh or in the
\* opposite order, with more before them or after them.
ManySectionFiles ==
    {Stream(Header \o (IF f[1] THEN f[7] ELSE <<>>)
                   \o (IF f[2] THEN f[3] \o f[4] \o f[5] \o f[6]
                                ELSE f[6] \o f[5] \o f[4] \o f[3])
                   \o (IF f[1] THEN <<>> ELSE f[7]), TRUE) :
        f \in BOOLEAN \X BOOLEAN \X (EntitySections \cup {<<>>})
                \X (GroupSections \cup {<<>>}) \X (NodeSections \cup {<<>>})
                \X (ElementSections \cup {<<>>}) \X MoreSections}

\* The sections of ManySectionFiles in their two orders, without the last
\* line of the file (the closing line of the last section), the last line
\* that is left ending with a newline or without one.
TruncatedFiles ==
    {Stream(Header \o SubSeq(f[1], 1, Len(f[1]) - 1), f[2]) :
        f \in {b \o (IF fwd THEN e \o g \o n \o t ELSE t \o n \o g \o e) :
                  b \in {<<>>}, fwd \in BOOLEAN,
                  e \in EntitySections \cup {<<>>}, g \in GroupSections \cup {<<>>},
                  n \in NodeSections \cup {<<>>}, t \in ElementSections \cup {<<>>}}
              \X BOOLEAN}

\* A bloc of tetrahedra of the given volume; each tetrahedron is its tag and
\* its four node tags.
TetBlocLines(entity, tets) ==
    <<<<"3", Str(entity), "4", Str(Len(tets))>>>>
        \o [k \in 1..Len(tets) |-> [j \in 1..5 |-> Str(tets[k][j])]]

\* $Entities sections of no volume, of volume 1 in group 1, of volume 1 in
\* group 2, and of volume 1 in group 1 and volume 2 in group 2.
AssemblyEntities ==
    {Section("$Entities", <<<<"0", "0", "0", Str(Len(vols))>>>> \o vols, "$EndEntities") :
        vols \in {<<>>, <<VolumeLine(1, 1, <<"1">>)>>, <<VolumeLine(1, 1, <<"2">>)>>,
                  <<VolumeLine(1, 1, <<"1">>), VolumeLine(2, 1, <<"2">>)>>}}

\* $PhysicalNames sections of a surface only, of group 1, and of groups 1
\* and 2.
AssemblyGroups ==
    {Section("$PhysicalNames", GroupLines(lines), "$EndPhysicalNames") :
        lines \in {<<GroupLine(2, 1, "\"Steel\"")>>, <<GroupLine(3, 1, "\"Steel\"")>>,
                   <<GroupLine(3, 1, "\"Steel\""), GroupLine(3, 2, "\"Water\"")>>}}

\* $Nodes sections of no bloc, of the nodes 1..4, of the nodes 1..3, and of
\* the nodes 2, 1, 4, 3 in two blocs.
AssemblyNodes ==
    {Section("$Nodes", NodeLines(blocs, 0), "$EndNodes") :
        blocs \in {<<>>, <<<<1, 2, 3, 4>>>>, <<<<1, 2>>, <<3>>>>, <<<<2, 1>>, <<4, 3>>>>}}

\* $Elements sections of a bloc of triangles only, of a tetrahedron of
\* volume 1, of a tetrahedron of volume 2, of a tetrahedron with a node
\* twice, and of a bloc of volume 1 and a bloc of volume 2.
AssemblyElements ==
    {Section("$Elements", ElementLines(<<<<2, <<1>>>>>>), "$EndElements")}
    \cup {Section("$Elements",
                  <<<<Str(Len(blocs)), Str(SumLen([k \in 1..Len(blocs) |-> blocs[k][2]])),
                      "1", "2">>>>
                      \o ConcatAll([k \in 1..Len(blocs) |->
                                       TetBlocLines(blocs[k][1], blocs[k][2])]),
                  "$EndElements") :
              blocs \in {<<<<1, <<<<1, 1, 2, 3, 4>>>>>>>>,
                         <<<<2, <<<<1, 1, 2, 3, 4>>>>>>>>,
                         <<<<1, <<<<1, 1, 1, 2, 3>>>>>>>>,
                         <<<<1, <<<<1, 1, 2, 3, 4>>>>>>, <<2, <<<<2, 2, 3, 4, 1>>>>>>>>}}

\* The files of at most one section of each kind, in the order $Entities,
\* $PhysicalNames, $Nodes, $Elements.
AssemblyFiles ==
    {Stream(Header \o e \o g \o n \o t, TRUE) :
        e \in AssemblyEntities \cup {<<>>}, g \in AssemblyGroups \cup {<<>>},
        n \in AssemblyNodes \cup {<<>>}, t \in AssemblyElements \cup {<<>>}}

\* Files with a $MeshFormat line in the body: sections, the line, and more
\* sections after it.
StopFiles ==
    {Stream(Header \o before \o <<<<"$MeshFormat">>>> \o after, TRUE) :
        before \in {e \o g \o n \o t :
                       e \in {Section("$Entities", <<<<"0", "0", "0", "1">>,
                                                     VolumeLine(1, 1, <<"1">>)>>,
                                      "$EndEntities")},
                       g \in {Section("$PhysicalNames",
                                      GroupLines(<<GroupLine(3, 1, "\"Steel\"")>>),
                                      "$EndPhysicalNames")},
                       n \in {<<>>, Section("$Nodes", NodeLines(<<<<1, 2, 3, 4>>>>, 0),
                                            "$EndNodes")},
                       t \in {<<>>, Section("$Elements",
                                            ElementLines(<<<<3, <<1>>>>>>), "$EndElements")}},
        after \in {<<>>,
                   Section("$Nodes", NodeLines(<<<<1, 2>>, <<3>>>>, 0), "$EndNodes"),
                   Section("$Elements", ElementLines(<<<<3, <<1, 2>>>>>>), "$EndElements"),
                   Section("$Nodes", NodeLines(<<<<1, 2>>, <<3>>>>, 0), "$EndNodes")
                       \o Section("$Elements", ElementLines(<<<<3, <<1, 2>>>>>>),
                                  "$EndElements"),
                   <<<<"$Nodes">>, <<"0">>>>}}

\* The four sections of a mesh of one tetrahedron on the nodes 1..4.
GoodBody ==
    Section("$Entities", <<<<"0", "0", "0", "1">>, VolumeLine(1, 1, <<"1">>)>>, "$EndEntities")
        \o Section("$PhysicalNames", GroupLines(<<GroupLine(3, 1, "\"Steel\"")>>),
                   "$EndPhysicalNames")
        \o Section("$Nodes", NodeLines(<<<<1, 2, 3, 4>>>>, 0), "$EndNodes")
        \o Section("$Elements", ElementLines(<<<<3, <<1>>>>>>), "$EndElements")

\* Files with a section of a name that parse_body does not know, before or
\* after the four sections: its lines are text, a $MeshFormat line, a line
\* that opens a known section, or a whole $Nodes section.
CommentFiles ==
    {Stream(Header \o (IF f[1] THEN <<>> ELSE GoodBody)
                   \o Section("$Comments", f[2], "$EndComments")
                   \o (IF f[1] THEN GoodBody ELSE <<>>), TRUE) :
        f \in BOOLEAN \X {<<>>, <<<<"made", "by", "hand">>>>,
                          <<<<"made", "by", "hand">>, <<"$EndNodes">>>>,
                          <<<<"$MeshFormat">>>>, <<<<"$Nodes">>>>, <<<<"$Elements">>>>,
                          Section("$Nodes", NodeLines(<<<<1, 2>>, <<3>>>>, 0), "$EndNodes")}}

InitFile ==
    /\ ctor_args = [k \in 1..4 |-> 0]
    /\ ctor_res = NotRun
    /\ elements = <<>>
    /\ nbrs = NotRun
    /\ naive = NotRun
    /\ input \in OneSectionFiles \cup ManySectionFiles \cup TruncatedFiles
                   \cup AssemblyFiles \cup StopFiles \cup CommentFiles
    /\ parsed = NotRun
    /\ index = NotRun
    /\ shared = NotRun
    /\ flag_nbrs = NotRun
    /\ list_nbrs = NotRun

\* EGS_Mesh mesh = msh_parser::parse_msh_file(input);
ParseFile ==
    /\ parsed = NotRun
    /\ parsed' = parse_msh_file(input)
    /\ UNCHANGED <<tetVars, nbrVars, input, idxVars>>

NextFile == ParseFile

SpecFile == InitFile /\ [][NextFile]_vars

(***************************************************************************)
(* SpecNodes: parse_nodes on the lines that follow a $Nodes line.          *)
(***************************************************************************)
InitNodes ==
    /\ ctor_args = [k \in 1..4 |-> 0]
    /\ ctor_res = NotRun
    /\ elements = <<>>
    /\ nbrs = NotRun
    /\ naive = NotRun
    /\ input \in NodeStreams
    /\ parsed = NotRun
    /\ index = NotRun
    /\ shared = NotRun
    /\ flag_nbrs = NotRun
    /\ list_nbrs = NotRun

\* nodes = parse_nodes(input);
ParseNodes ==
    /\ parsed = NotRun
    /\ parsed' = parse_nodes(input)
    /\ UNCHANGED <<tetVars, nbrVars, input, idxVars>>

NextNodes == ParseNodes

SpecNodes == InitNodes /\ [][NextNodes]_vars

(***************************************************************************)
(* SpecElementBloc: parse_element_bloc on the lines of one bloc of the     *)
(* $Elements section and the lines that follow it.                         *)
(***************************************************************************)
\* The element lines of the model: tetrahedra, one of them with a node tag
\* -2, one with an element tag -2, one with a node tag -1, a triangle.
ElementLinesOfBloc ==
    {<<"1", "1", "2", "3", "4">>, <<"2", "-2", "2", "3", "4">>, <<"-2", "1", "2", "3", "4">>,
     <<"2", "1", "2", "3", "-1">>, <<"2", "1", "2", "3">>}

\* A bloc header of each dimension, of entity 1 or 2, of the types 2
\* (triangle), 4 (tetrahedron) and 5 (hexahedron), announcing up to
\* MaxBlocElts elements, followed by up to MaxBlocElts element lines and
\* the rest of the section.
ElementBlocStreams ==
    {Stream(<<<<Str(h[1]), Str(h[2]), Str(h[3]), Str(h[4])>>>> \o lines
                \o <<<<"$EndElements">>, <<"$Comments">>>>, TRUE) :
        h \in (0..3) \X {1, 2} \X {2, 4, 5} \X (0..MaxBlocElts),
        lines \in SeqsUpTo(ElementLinesOfBloc, MaxBlocElts)}

InitElementBloc ==
    /\ ctor_args = [k \in 1..4 |-> 0]
    /\ ctor_res = NotRun
    /\ elements = <<>>
    /\ nbrs = NotRun
    /\ naive = NotRun
    /\ input \in ElementBlocStreams
    /\ parsed = NotRun
    /\ index = NotRun
    /\ shared = NotRun
    /\ flag_nbrs = NotRun
    /\ list_nbrs = NotRun

\* bloc_elts = parse_element_bloc(input);
ParseElementBloc ==
    /\ parsed = NotRun
    /\ parsed' = parse_element_bloc(input)
    /\ UNCHANGED <<tetVars, nbrVars, input, idxVars>>

NextElementBloc == ParseElementBloc

SpecElementBloc == InitElementBloc /\ [][NextElementBloc]_vars

(***************************************************************************)
(* Claims about the Tetrahedron value (SpecTet)                            *)
(***************************************************************************)
ArgSet == {ctor_args[k] : k \in 1..4}

Constructed == ctor_res # NotRun

\* C5: constructing a Tetrahedron from four integers throws if and only if
\* one of them is negative or two of them are equal; in particular a tag of
\* 0 is accepted.
C5_ThrowsIffNegativeOrDuplicate ==
    Constructed =>
        /\ (~ctor_res.ok) <=>
              \/ \E k \in 1..4 : ctor_args[k] < 0
              \/ \E k, l \in 1..4 : k # l /\ ctor_args[k] = ctor_args[l]
        /\ (0 \in ArgSet /\ Cardinality(ArgSet) = 4 /\ (\A x \in ArgSet : x >= 0))
              => ctor_res.ok

\* A construction that throws on a duplicate although no tag is negative.
C5_Witness ==
    /\ Constructed
    /\ ~ctor_res.ok
    /\ \A k \in 1..4 : ctor_args[k] >= 0
    /\ ctor_args[2] = ctor_args[4]

\* C6: for any permutation of four distinct non-negative tags, nodes() is
\* the tags in strictly ascending order, max_node() is the largest tag and
\* faces()[k] is the ascending triple that omits the k-th smallest tag.
C6_SortedNodesAndFaces ==
    (Constructed /\ ctor_res.ok) =>
        LET asc == Ascending(ArgSet)
        IN  /\ Cardinality(ArgSet) = 4
            /\ \A k \in 0..3 : nodes(ctor_res)[k] = asc[k + 1]
            /\ \A k \in 0..2 : nodes(ctor_res)[k] < nodes(ctor_res)[k + 1]
            /\ \A x \in ArgSet : x <= max_node(ctor_res)
            /\ max_node(ctor_res) \in ArgSet
            /\ DOMAIN faces(ctor_res) = 0..3
            /\ \A k \in 0..3 :
                  faces(ctor_res)[k] = Ascending(ArgSet \ {asc[k + 1]})

\* A tetrahedron built from tags that were not handed over in ascending order.
C6_Witness ==
    /\ Constructed
    /\ ctor_res.ok
    /\ ctor_args[1] > ctor_args[2]
    /\ ctor_args[3] > ctor_args[4]

(***************************************************************************)
(* Claims about the neighbour table (SpecNbr)                              *)
(***************************************************************************)
Built == nbrs # NotRun

EltIds == 0..(Len(elements) - 1)

\* The elements one of whose faces is the triple `face`.
Sharing(face) == {e \in EltIds : \E f \in 0..3 : faces(At(elements, e))[f] = face}

\* No face belongs to more than two elements.
Manifold ==
    \A e \in EltIds : \A f \in 0..3 :
        Cardinality(Sharing(faces(At(elements, e))[f])) <= 2

TagsOf(e) == {nodes(At(elements, e))[k] : k \in 0..3}

AllTags == UNION {TagsOf(e) : e \in EltIds}

\* Node tags are >= 1.
TagsPositive == \A n \in AllTags : n >= 1

\* Node tags are >= 1 and contiguous from 1 to the largest tag.
TagsContiguous ==
    /\ elements # <<>>
    /\ AllTags = 1..(CHOOSE m \in AllTags : \A n \in AllTags : n <= m)

Slot(e, f) == nbrs.neighbours[e * FACES_PER_ELT + f]

\* C1: for every element sequence with node tags >= 1 the table of
\* tetrahedron_neighbours equals, slot for slot, the table of naive_neighbours.
C1_EqualsNaive ==
    (Built /\ TagsPositive) =>
        /\ nbrs.ok
        /\ naive.ok
        /\ DOMAIN nbrs.neighbours = DOMAIN naive.neighbours
        /\ \A s \in DOMAIN nbrs.neighbours : nbrs.neighbours[s] = naive.neighbours[s]

\* A built table of three elements in which a face has found a neighbour.
C1_Witness ==
    /\ Built
    /\ nbrs.ok
    /\ Len(elements) = 3
    /\ \E e \in EltIds, f \in 0..3 : Slot(e, f) # NONE

Reciprocal ==
    \A e \in EltIds : \A f \in 0..3 :
        LET j == Slot(e, f)
        IN  j # NONE =>
               \E g \in 0..3 :
                  /\ Slot(j, g) = e
                  /\ faces(At(elements, e))[f] = faces(At(elements, j))[g]

\* C2 as stated: reciprocity of every built table, also when three or more
\* elements share a face.
C2_ReciprocityAlways == (Built /\ nbrs.ok) => Reciprocal

\* C2 amended: reciprocity of every built table in which no face is shared
\* by more than two elements: if neighbours[e][f] = j # NONE then some face
\* slot g of j has neighbours[j][g] = e and faces(e)[f] = faces(j)[g].
C2_ReciprocityManifold == (Built /\ nbrs.ok /\ Manifold) => Reciprocal

\* A built table over a manifold sequence of three elements with a matched face.
C2_Witness ==
    /\ Built
    /\ nbrs.ok
    /\ Manifold
    /\ Len(elements) = 3
    /\ \E e \in EltIds, f \in 0..3 : Slot(e, f) # NONE

Isolated(e) == \A f \in 0..3 : Slot(e, f) = NONE

\* C3 as stated: no element of a built table has all four slots NONE.
C3_NoIsolatedAlways == (Built /\ nbrs.ok) => \A e \in EltIds : ~Isolated(e)

\* C3 amended: in a built table, no element that shares a face with another
\* element has all four slots NONE.
C3_NoIsolatedWhenSharing ==
    (Built /\ nbrs.ok) =>
        \A e \in EltIds :
            (\E f \in 0..3 : Sharing(faces(At(elements, e))[f]) # {e}) => ~Isolated(e)

\* A built table of three elements each of which shares a face with another.
C3_Witness ==
    /\ Built
    /\ nbrs.ok
    /\ Len(elements) = 3
    /\ \A e \in EltIds : \E f \in 0..3 : Sharing(faces(At(elements, e))[f]) # {e}

\* C4: for a non-empty element sequence whose node tags are >= 1 and
\* contiguous from 1 to the largest tag, tetrahedron_neighbours returns
\* without an exception a table of exactly 4 * |tets| entries.
C4_BuilderCannotFail ==
    (Built /\ TagsContiguous) =>
        /\ nbrs.ok
        /\ DOMAIN nbrs.neighbours = 0..(4 * Len(elements) - 1)
        /\ \A s \in DOMAIN nbrs.neighbours : nbrs.neighbours[s] \in {NONE} \cup EltIds

\* A table built from three elements with contiguous tags 1..5.
C4_Witness ==
    /\ Built
    /\ TagsContiguous
    /\ Len(elements) = 3
    /\ AllTags = 1..5

(***************************************************************************)
(* Claims about the format header (SpecHeader)                             *)
(***************************************************************************)
Ran == parsed # NotRun

\* A line without its trailing blanks, read off the line itself.
Trimmed(line) ==
    LET last == CHOOSE k \in 0..Len(line) :
                    /\ k = 0 \/ line[k] # " "
                    /\ \A m \in (k + 1)..Len(line) : line[m] = " "
    IN  SubSeq(line, 1, last)

\* The tokens of the lines after the first, each with the index of its line.
RECURSIVE TokensFrom(_, _)
TokensFrom(lines, l) ==
    IF l > Len(lines) THEN <<>>
    ELSE [k \in 1..Len(SelectSeq(lines[l], LAMBDA p : p # " ")) |->
             [line |-> l, text |-> SelectSeq(lines[l], LAMBDA p : p # " ")[k]]]
         \o TokensFrom(lines, l + 1)

HeaderTokens == TokensFrom(input.lines, 2)

FirstLineIsMeshFormat ==
    /\ ~input.fail
    /\ Len(input.lines) >= 1
    /\ Trimmed(input.lines[1]) = <<"$MeshFormat">>

\* The line after the one that holds the third token is $EndMeshFormat.
ClosedByEndMeshFormat ==
    /\ Len(HeaderTokens) >= 3
    /\ HeaderTokens[3].line < Len(input.lines)
    /\ Trimmed(input.lines[HeaderTokens[3].line + 1]) = <<"$EndMeshFormat">>

\* C7: parse_msh_version returns v41 if and only if the first line, trimmed,
\* is $MeshFormat, the next three tokens are 4.1, 0 and 8, and the following
\* line, trimmed, is $EndMeshFormat; on every other input it throws.
C7_AcceptsExactlyV41Ascii ==
    Ran =>
        /\ parsed.ok <=>
              /\ FirstLineIsMeshFormat
              /\ Len(HeaderTokens) >= 3
              /\ HeaderTokens[1].text = "4.1"
              /\ HeaderTokens[2].text = "0"
              /\ HeaderTokens[3].text = "8"
              /\ ClosedByEndMeshFormat
        /\ parsed.ok => parsed.version = "v41"

\* An accepted header whose three tokens stand on three lines.
C7_Witness ==
    /\ Ran
    /\ parsed.ok
    /\ HeaderTokens[1].line # HeaderTokens[3].line

\* A header of version 4.1 whose binary flag is an integer other than 0.
NonZeroFlag41 ==
    /\ FirstLineIsMeshFormat
    /\ Len(HeaderTokens) >= 2
    /\ HeaderTokens[1].text = "4.1"
    /\ IsNumeral(HeaderTokens[2].text)
    /\ IntOf(HeaderTokens[2].text) # 0

\* C8 as stated: every header of version 4.1 with a binary flag other than
\* 0 fails with the unsupported-binary error and no other.
C8_EveryNonZeroFlagIsBinaryError ==
    (Ran /\ NonZeroFlag41) =>
        (~parsed.ok /\ parsed.what = "binary msh files are unsupported")

\* C8 amended: a header of version 4.1 whose three tokens are read fails
\* with the unsupported-binary error when its binary flag is 1, and with the
\* generic "failed to parse msh version" error when the flag is any other
\* value than 0 and 1; a header whose third token is missing fails with the
\* generic error whatever its flag.
C8_BinaryErrorOnlyForFlagOne ==
    (Ran /\ NonZeroFlag41) =>
        /\ ~parsed.ok
        /\ parsed.what =
              IF /\ Len(HeaderTokens) >= 3
                 /\ IsNumeral(HeaderTokens[3].text)
                 /\ IntOf(HeaderTokens[2].text) = 1
              THEN "binary msh files are unsupported"
              ELSE "failed to parse msh version"

\* A header 4.1 2 8 that was rejected.
C8_Witness ==
    /\ Ran
    /\ NonZeroFlag41
    /\ Len(HeaderTokens) >= 3
    /\ HeaderTokens[2].text = "2"
    /\ HeaderTokens[3].text = "8"
    /\ ~parsed.ok

(***************************************************************************)
(* Claims about the $Entities section (SpecEntities)                       *)
(***************************************************************************)
Tokens(line) == SelectSeq(line, LAMBDA p : p # " ")

\* The number of lines of lower-dimensional entities that the first line
\* of the section announces.
LowerCount == IntOf(Tokens(input.lines[1])[1])

\* The indices of the volume lines: the lines after the lower-dimensional
\* entities and before the first $EndEntities line or the end of the stream.
VolumeLineIds ==
    {l \in (LowerCount + 2)..Len(input.lines) :
        \A m \in (LowerCount + 2)..l : Trimmed(input.lines[m]) # <<"$EndEntities">>}

LineTag(l) == IntOf(Tokens(input.lines[l])[1])

LineGroupCount(l) == IntOf(Tokens(input.lines[l])[8])

\* The first line of the section announces at least one volume.
CountsAccepted ==
    /\ Len(Tokens(input.lines[1])) = 4
    /\ IntOf(Tokens(input.lines[1])[4]) > 0

\* Every volume line before line l carries one group and its tag.
PassedBefore(l) ==
    \A m \in VolumeLineIds :
        m < l => (LineGroupCount(m) = 1 /\ Len(Tokens(input.lines[m])) >= 9)

NamesTag(res, tag) ==
    /\ ~res.ok
    /\ res.what \in
          {"$Entities parsing failed, volume was not assigned a physical group",
           "$Entities parsing failed, volume has more than one physical group"}
    /\ res.arg = tag

\* C9: every volume line whose physical-group count is 0 or greater than 1
\* makes parsing fail with an error that names that volume's entity tag, and
\* parse_entities returns only when every volume read has exactly one group.
C9_BadGroupCountNamesVolume ==
    (Ran /\ CountsAccepted) =>
        /\ \A l \in VolumeLineIds :
              (PassedBefore(l) /\ LineGroupCount(l) # 1) => NamesTag(parsed, LineTag(l))
        /\ parsed.ok => \A l \in VolumeLineIds : LineGroupCount(l) = 1

\* The part of C9 that the code keeps: a volume line with a count other
\* than 1 that is followed by one more integer is named by the error, and
\* parse_entities returns only when every volume read has exactly one group.
C9_BadGroupCountNamesVolumeWhenFollowed ==
    (Ran /\ CountsAccepted) =>
        /\ \A l \in VolumeLineIds :
              (PassedBefore(l) /\ LineGroupCount(l) # 1 /\ Len(Tokens(input.lines[l])) >= 9)
                  => NamesTag(parsed, LineTag(l))
        /\ parsed.ok => \A l \in VolumeLineIds : LineGroupCount(l) = 1

(***************************************************************************)
(* Claims about whole files (SpecFile)                                     *)
(***************************************************************************)
\* The lines of the file after the header and the line that opens its first
\* section.
SectionLineIds == 5..Len(input.lines)

OpensWith(name) == Len(input.lines) >= 4 /\ input.lines[4] = <<name>>

\* The tags of the records of the one section of a file of
\* GoodOneSectionFiles, in the order of the file: the volume lines are the
\* lines of nine tokens, the tag lines of the nodes the lines of one
\* numeral, the groups of dimension 3 the lines of three tokens that start
\* with 3, and the tetrahedra the lines of five tokens.
RecordLineIds ==
    CASE OpensWith("$Entities") ->
            {l \in SectionLineIds : Len(Tokens(input.lines[l])) = 9}
      [] OpensWith("$Nodes") ->
            {l \in SectionLineIds : /\ Len(Tokens(input.lines[l])) = 1
                                    /\ IsNumeral(input.lines[l][1])}
      [] OpensWith("$PhysicalNames") ->
            {l \in SectionLineIds : /\ Len(Tokens(input.lines[l])) = 3
                                    /\ input.lines[l][1] = "3"}
      [] OpensWith("$Elements") ->
            {l \in SectionLineIds : Len(Tokens(input.lines[l])) = 5}
      [] OTHER -> {}

RecordTag(l) ==
    IF OpensWith("$PhysicalNames") THEN IntOf(input.lines[l][2]) ELSE IntOf(input.lines[l][1])

DuplicatedTags ==
    {RecordTag(l) : l \in {l \in RecordLineIds :
                              \E m \in RecordLineIds : m # l /\ RecordTag(m) = RecordTag(l)}}

DuplicateMessage ==
    CASE OpensWith("$Entities") -> "$Entities section parsing failed, found duplicate volume tag"
      [] OpensWith("$Nodes") -> "$Nodes section parsing failed, found duplicate node tag"
      [] OpensWith("$PhysicalNames") ->
            "$PhysicalNames section parsing failed, found duplicate tag"
      [] OpensWith("$Elements") ->
            "$Elements section parsing failed, found duplicate tetrahedron tag"
      [] OTHER -> ""

Distinct(seq) == \A i, j \in 1..Len(seq) : i # j => seq[i].tag # seq[j].tag

\* C10: a section of volumes, nodes, groups of dimension 3 or tetrahedra in
\* which two records carry the same tag, and which is right in everything
\* else, fails with the error of that section that names a duplicated tag;
\* and the node tags of a returned mesh are pairwise distinct, as are its
\* media tags.
C10_DuplicateTagsRejected ==
    Ran =>
        /\ (input \in GoodOneSectionFiles /\ DuplicatedTags # {}) =>
              /\ ~parsed.ok
              /\ parsed.what = "msh 4.1 parsing failed"
              /\ parsed.cause.what = DuplicateMessage
              /\ parsed.cause.arg \in DuplicatedTags
        /\ parsed.ok => (Distinct(parsed.nodes) /\ Distinct(parsed.materials))

C10_Witness ==
    /\ Ran
    /\ input \in GoodOneSectionFiles
    /\ OpensWith("$Nodes")
    /\ DuplicatedTags = {2}
    /\ Cardinality(RecordLineIds) = 3
    /\ ~parsed.ok

\* A mesh of several nodes and media is returned.
C10_WitnessMesh ==
    /\ Ran
    /\ parsed.ok
    /\ Len(parsed.nodes) > 1
    /\ Len(parsed.materials) > 1

\* The lines that open the four sections, and the lines that close them.
EndMarker(name) ==
    CASE name = "$Entities" -> "$EndEntities"
      [] name = "$PhysicalNames" -> "$EndPhysicalNames"
      [] name = "$Nodes" -> "$EndNodes"
      [] name = "$Elements" -> "$EndElements"

KnownSections == {"$Entities", "$PhysicalNames", "$Nodes", "$Elements"}

OpeningLineIds ==
    {l \in 4..Len(input.lines) : \E name \in KnownSections : input.lines[l] = <<name>>}

\* The file ends inside the section that name opens: the last line that
\* opens a section opens it, and no line after it closes it.
EndsInside(name) ==
    \E l \in OpeningLineIds :
        /\ input.lines[l] = <<name>>
        /\ \A m \in OpeningLineIds : m <= l
        /\ \A m \in (l + 1)..Len(input.lines) : Trimmed(input.lines[m]) # <<EndMarker(name)>>

\* C11: for each of $Entities, $PhysicalNames, $Nodes and $Elements, a file
\* that ends after the records of the section and before the line that
\* closes it is not parsed.
C11_EndMarkerMandatory ==
    Ran => \A name \in KnownSections : EndsInside(name) => ~parsed.ok

\* The part of C11 that the code keeps: a file that ends inside $Nodes or
\* inside $Elements is not parsed.
C11_EndMarkerMandatoryNodesElements ==
    Ran => \A name \in {"$Nodes", "$Elements"} : EndsInside(name) => ~parsed.ok

(***************************************************************************)
(* Claims about the $Nodes section (SpecNodes)                             *)
(***************************************************************************)
\* The number on the first line of the section that announces its nodes.
DeclaredNodes == IntOf(Tokens(input.lines[1])[2])

DeclaredBlocs == IntOf(Tokens(input.lines[1])[1])

\* The index of the first line of the b-th bloc, and its number of nodes.
RECURSIVE BlocStart(_)
BlocStart(b) ==
    IF b = 1 THEN 2
    ELSE BlocStart(b - 1) + 1 + 2 * IntOf(Tokens(input.lines[BlocStart(b - 1)])[4])

BlocSize(b) == IntOf(Tokens(input.lines[BlocStart(b)])[4])

\* The i-th node of the b-th bloc: the tag of the i-th tag line of the bloc
\* with the coordinates of its i-th line of coordinates.
NodeOfLines(b, i) ==
    LET tagline == Tokens(input.lines[BlocStart(b) + i])
        xyz == Tokens(input.lines[BlocStart(b) + BlocSize(b) + i])
    IN  [tag |-> IntOf(tagline[1]), x |-> IntOf(xyz[1]), y |-> IntOf(xyz[2]),
         z |-> IntOf(xyz[3])]

\* The nodes of blocs 1..b, bloc after bloc.
RECURSIVE NodesOfLines(_)
NodesOfLines(b) ==
    IF b = 0 THEN <<>>
    ELSE NodesOfLines(b - 1) \o [i \in 1..BlocSize(b) |-> NodeOfLines(b, i)]

\* C12: parse_nodes returns only when the nodes of all the blocs are as
\* many as the first line of the section announces, and the nodes it
\* returns are those of the blocs in the order of the blocs and, within a
\* bloc, in the order of its lines, the i-th tag line of a bloc paired with
\* its i-th line of coordinates.
C12_NodesCountedInOrder ==
    (Ran /\ parsed.ok) =>
        /\ Len(NodesOfLines(DeclaredBlocs)) = DeclaredNodes
        /\ parsed.read = NodesOfLines(DeclaredBlocs)

\* Two blocs, the second of two nodes, are returned.
C12_Witness ==
    /\ Ran /\ parsed.ok
    /\ DeclaredBlocs = 2
    /\ BlocSize(1) >= 1 /\ BlocSize(2) >= 1
    /\ Len(parsed.read) = 2
    /\ parsed.read[2] = NodeOfLines(2, 1)

\* A section that announces a number of nodes that its blocs do not hold
\* is refused.
C12_WitnessMiscount ==
    /\ Ran /\ ~parsed.ok
    /\ parsed.what = "$Nodes section parsing failed, expected a number of nodes but read another"

(***************************************************************************)
(* Claims about one bloc of the $Elements section (SpecElementBloc)        *)
(***************************************************************************)
\* The four numbers of the first line of the bloc.
BlocDim == IntOf(Tokens(input.lines[1])[1])

BlocEntity == IntOf(Tokens(input.lines[1])[2])

BlocType == IntOf(Tokens(input.lines[1])[3])

BlocCount == IntOf(Tokens(input.lines[1])[4])

\* C13: a bloc of dimension 3 whose element type is not 4 is refused with
\* an error that names the entity of the bloc, whatever number of elements
\* it announces; a bloc of dimension 0, 1 or 2 is read for exactly the
\* number of lines it announces (when the stream holds them), yields no
\* tetrahedron and is not refused, whatever its element type.
C13_OnlyTetrahedraInVolumes ==
    Ran =>
        /\ (BlocDim = 3 /\ BlocType # 4) =>
              /\ ~parsed.ok
              /\ parsed.what = "Element bloc parsing failed, got non-tetrahedral mesh element type"
              /\ parsed.arg = BlocEntity
        /\ BlocDim \in 0..2 =>
              /\ parsed.ok
              /\ parsed.elts = <<>>
              /\ 1 + BlocCount <= Len(input.lines) => parsed.st.pos = 2 + BlocCount

\* A bloc of hexahedra of entity 2 that announces no element is refused.
C13_Witness ==
    /\ Ran /\ BlocDim = 3 /\ BlocType = 5 /\ BlocEntity = 2 /\ BlocCount = 0
    /\ ~parsed.ok /\ parsed.arg = 2

\* A bloc of dimension 2 that announces two elements of type 5 is skipped.
C13_WitnessSkipped ==
    /\ Ran /\ BlocDim = 2 /\ BlocType = 5 /\ BlocCount = 2
    /\ parsed.ok /\ parsed.st.pos = 4

\* The tokens of the element lines that a bloc of tetrahedra announces.
AnnouncedLineIds == {l \in 2..Len(input.lines) : l <= 1 + BlocCount}

HasNegativeTag(l) ==
    \E k \in 1..5 :
        /\ k <= Len(Tokens(input.lines[l]))
        /\ IsNumeral(Tokens(input.lines[l])[k])
        /\ IntOf(Tokens(input.lines[l])[k]) < 0

\* C14: a bloc of tetrahedra one of whose element lines carries a negative
\* element tag or a negative node tag is refused, and no tetrahedron that is
\* returned has a negative node tag.
C14_NegativeTagsRejected ==
    (Ran /\ BlocDim = 3 /\ BlocType = 4) =>
        /\ (\E l \in AnnouncedLineIds : HasNegativeTag(l)) => ~parsed.ok
        /\ parsed.ok => \A k \in 1..Len(parsed.elts) :
               /\ parsed.elts[k].a >= 0 /\ parsed.elts[k].b >= 0
               /\ parsed.elts[k].c >= 0 /\ parsed.elts[k].d >= 0

\* The part of C14 that the code keeps: a tag -1 on an element line is
\* refused, and no tetrahedron that is returned has a tag -1.
C14_MinusOneRejected ==
    (Ran /\ BlocDim = 3 /\ BlocType = 4) =>
        /\ (\E l \in AnnouncedLineIds : \E k \in 1..5 :
               k <= Len(Tokens(input.lines[l])) /\ Tokens(input.lines[l])[k] = "-1")
              => ~parsed.ok
        /\ parsed.ok => \A k \in 1..Len(parsed.elts) :
               /\ parsed.elts[k].tag # -1
               /\ parsed.elts[k].a # -1 /\ parsed.elts[k].b # -1
               /\ parsed.elts[k].c # -1 /\ parsed.elts[k].d # -1

(***************************************************************************)
(* Claims about the mesh made of the four sections (SpecFile).  The        *)
(* sections of a file are read off its lines: the body ends at its first   *)
(* $MeshFormat line, and the section of a name is the last one that the    *)
(* body opens with it.  The records are read where a well-formed section   *)
(* has them.                                                               *)
(***************************************************************************)
FileLine(l) == Tokens(input.lines[l])

BodyStop ==
    IF \E l \in 4..Len(input.lines) : FileLine(l) = <<"$MeshFormat">>
    THEN CHOOSE l \in 4..Len(input.lines) :
            /\ FileLine(l) = <<"$MeshFormat">>
            /\ \A m \in 4..(l - 1) : FileLine(m) # <<"$MeshFormat">>
    ELSE Len(input.lines) + 1

HasSection(name) == \E l \in 4..(BodyStop - 1) : FileLine(l) = <<name>>

SectionAt(name) ==
    CHOOSE l \in 4..(BodyStop - 1) :
        /\ FileLine(l) = <<name>>
        /\ \A m \in (l + 1)..(BodyStop - 1) : FileLine(m) # <<name>>

\* The volumes of $Entities: after the line of the four counts and the
\* lines of the points, curves and surfaces, one line per volume, with the
\* tag first and the group ninth.
FileVolumes ==
    LET o == SectionAt("$Entities")
        counts == FileLine(o + 1)
        low == IntOf(counts[1]) + IntOf(counts[2]) + IntOf(counts[3])
    IN  [k \in 1..IntOf(counts[4]) |->
            [tag |-> IntOf(FileLine(o + 1 + low + k)[1]),
             group |-> IntOf(FileLine(o + 1 + low + k)[9])]]

\* The tags of the groups of dimension 3 of $PhysicalNames, in their order.
FileGroupTags ==
    LET o == SectionAt("$PhysicalNames")
        all == [k \in 1..IntOf(FileLine(o + 1)[1]) |-> FileLine(o + 1 + k)]
        solid == SelectSeq(all, LAMBDA g : g[1] = "3")
    IN  [k \in 1..Len(solid) |-> IntOf(solid[k][2])]

\* The first line of the b-th bloc of the section opened at line o, when
\* each bloc has `per` lines for each of the elements its first line
\* announces (2 for nodes, 1 for elements).
RECURSIVE FileBloc(_, _, _)
FileBloc(o, per, b) ==
    IF b = 1 THEN o + 2
    ELSE FileBloc(o, per, b - 1) + 1 + per * IntOf(FileLine(FileBloc(o, per, b - 1))[4])

\* The tags of the nodes of $Nodes.
FileNodeTags ==
    LET o == SectionAt("$Nodes")
    IN  UNION {{IntOf(FileLine(FileBloc(o, 2, b) + i)[1]) :
                   i \in 1..IntOf(FileLine(FileBloc(o, 2, b))[4])} :
               b \in 1..IntOf(FileLine(o + 1)[1])}

\* The tetrahedra of blocs 1..b of $Elements, each with the entity of its
\* bloc.
RECURSIVE FileTetsUpTo(_)
FileTetsUpTo(b) ==
    IF b = 0 THEN <<>>
    ELSE LET s == FileBloc(SectionAt("$Elements"), 1, b)
             h == FileLine(s)
         IN  FileTetsUpTo(b - 1)
                \o (IF h[1] = "3"
                    THEN [i \in 1..IntOf(h[4]) |->
                             [entity |-> IntOf(h[2]), tag |-> IntOf(FileLine(s + i)[1]),
                              a |-> IntOf(FileLine(s + i)[2]),
                              b |-> IntOf(FileLine(s + i)[3]),
                              c |-> IntOf(FileLine(s + i)[4]),
                              d |-> IntOf(FileLine(s + i)[5])]]
                    ELSE <<>>)

FileTets == FileTetsUpTo(IntOf(FileLine(SectionAt("$Elements") + 1)[1]))

\* C15: a mesh is returned only for a file whose body has the four
\* sections, with a volume, a node, a group of dimension 3 and a
\* tetrahedron; the mesh then has a node, an element and a medium.
C15_AllSectionsNeeded ==
    (Ran /\ parsed.ok) =>
        /\ \A name \in KnownSections : HasSection(name)
        /\ FileVolumes # <<>> /\ FileGroupTags # <<>> /\ FileNodeTags # {} /\ FileTets # <<>>
        /\ parsed.nodes # <<>> /\ parsed.elements # <<>> /\ parsed.materials # <<>>

\* A mesh is returned.
C15_Witness ==
    /\ Ran /\ parsed.ok
    /\ Len(FileVolumes) = 2 /\ Len(FileGroupTags) = 2 /\ Len(FileTets) = 2

\* The file has the four sections and one of them is empty: no volume, no
\* node, no group of dimension 3.
C15_WitnessEmptySection ==
    /\ Ran /\ ~parsed.ok /\ parsed.what = "msh 4.1 parsing failed"
    /\ \A name \in KnownSections : HasSection(name)
    /\ parsed.cause.what \in {"No volumes were parsed", "No nodes were parsed",
                              "No groups were parsed"}

\* The file has the three other sections and no $Elements.
C15_WitnessNoElements ==
    /\ Ran /\ ~parsed.ok /\ parsed.what = "msh 4.1 parsing failed"
    /\ \A name \in KnownSections \ {"$Elements"} : HasSection(name)
    /\ parsed.cause.what = "No tetrahedrons were parsed"

\* The volumes of the file whose group is the tag of no group of dimension
\* 3, and the tetrahedra of the file whose entity is the tag of no volume.
DanglingVolumes ==
    {k \in 1..Len(FileVolumes) :
        \A g \in 1..Len(FileGroupTags) : FileGroupTags[g] # FileVolumes[k].group}

DanglingTets ==
    {k \in 1..Len(FileTets) :
        \A v \in 1..Len(FileVolumes) : FileVolumes[v].tag # FileTets[k].entity}

\* C16: a file with a tetrahedron whose volume is none of $Entities, or
\* with a volume whose group is no group of dimension 3 of $PhysicalNames,
\* is not parsed: every file that is parsed has neither.
C16_NoDanglingReference ==
    (Ran /\ parsed.ok) => DanglingVolumes = {} /\ DanglingTets = {}

\* The four sections are accepted and a tetrahedron names a volume that
\* $Entities does not have.
C16_Witness ==
    /\ Ran /\ ~parsed.ok /\ parsed.what = "msh 4.1 parsing failed"
    /\ parsed.cause.what = "tetrahedron had unknown volume tag"
    /\ DanglingTets # {} /\ DanglingVolumes = {}
    /\ parsed.cause.volume = FileTets[CHOOSE k \in DanglingTets : TRUE].entity

\* The four sections are accepted and a volume names a group that
\* $PhysicalNames does not have.
C16_WitnessGroup ==
    /\ Ran /\ ~parsed.ok /\ parsed.what = "msh 4.1 parsing failed"
    /\ parsed.cause.what = "volume had unknown physical group tag"
    /\ DanglingVolumes # {}
    /\ parsed.cause.group = FileVolumes[CHOOSE k \in DanglingVolumes : TRUE].group

\* The group of the volume of the file that has the tag.
FileGroupOf(tag) ==
    FileVolumes[CHOOSE v \in 1..Len(FileVolumes) : FileVolumes[v].tag = tag].group

\* C17: in a mesh that is returned, the elements are the tetrahedra of the
\* file in their order, the medium_tag of each is the group of the volume
\* that the entity of its bloc names, and it is the tag of a medium of the
\* mesh.
C17_MediumOfVolume ==
    (Ran /\ parsed.ok) =>
        /\ Len(parsed.elements) = Len(FileTets)
        /\ \A k \in 1..Len(parsed.elements) :
              /\ parsed.elements[k].medium_tag = FileGroupOf(FileTets[k].entity)
              /\ \E m \in 1..Len(parsed.materials) :
                    parsed.materials[m].tag = parsed.elements[k].medium_tag

\* A mesh of two elements of two volumes of different groups.
C17_Witness ==
    /\ Ran /\ parsed.ok
    /\ Len(parsed.elements) = 2
    /\ FileTets[1].entity # FileTets[2].entity
    /\ parsed.elements[1].medium_tag = 1
    /\ parsed.elements[2].medium_tag = 2

\* The four node tags of an element of the mesh.
NodesOfElement(e) == <<e.a, e.b, e.c, e.d>>

MeshNodeTags == {parsed.nodes[k].tag : k \in 1..Len(parsed.nodes)}

PairwiseDifferent(seq) == \A i, j \in 1..Len(seq) : i # j => seq[i] # seq[j]

\* C18: in a mesh that is returned, the four node tags of every element are
\* pairwise different and each is the tag of a node of the mesh.
C18_ElementNodesValid ==
    (Ran /\ parsed.ok) =>
        \A k \in 1..Len(parsed.elements) :
            /\ PairwiseDifferent(NodesOfElement(parsed.elements[k]))
            /\ \A j \in 1..4 : NodesOfElement(parsed.elements[k])[j] \in MeshNodeTags

\* The two halves of C18, each on its own.
C18_ElementNodesDistinct ==
    (Ran /\ parsed.ok) =>
        \A k \in 1..Len(parsed.elements) : PairwiseDifferent(NodesOfElement(parsed.elements[k]))

C18_ElementNodesKnown ==
    (Ran /\ parsed.ok) =>
        \A k \in 1..Len(parsed.elements) :
            \A j \in 1..4 : NodesOfElement(parsed.elements[k])[j] \in MeshNodeTags

\* C19: the media of a mesh that is returned are exactly the groups that
\* are the medium of one of its elements.
C19_MediaAreUsed ==
    (Ran /\ parsed.ok) =>
        {parsed.materials[m].tag : m \in 1..Len(parsed.materials)}
            = {parsed.elements[k].medium_tag : k \in 1..Len(parsed.elements)}

\* The part of C19 that the code keeps: the media are the groups of
\* dimension 3 of $PhysicalNames, in their order, and the medium of every
\* element is among them.
C19_MediaAreAllGroups ==
    (Ran /\ parsed.ok) =>
        /\ [m \in 1..Len(parsed.materials) |-> parsed.materials[m].tag] = FileGroupTags
        /\ {parsed.elements[k].medium_tag : k \in 1..Len(parsed.elements)}
              \subseteq {parsed.materials[m].tag : m \in 1..Len(parsed.materials)}

\* The file cut before the first $MeshFormat line of its body.
FileBeforeStop == Stream(SubSeq(input.lines, 1, BodyStop - 1), TRUE)

\* C20: when the body has a $MeshFormat line, the body is read up to that
\* line only: the outcome (the mesh, or the error) is the outcome for the
\* file that ends before the line, whatever sections follow it.
C20_MeshFormatStopsBody ==
    (Ran /\ BodyStop <= Len(input.lines)) => parsed = parse_msh_file(FileBeforeStop)

\* A mesh is returned from the four sections before the line although a
\* $Nodes and a $Elements section follow it: the nodes and the elements
\* are those of the sections before.
C20_Witness ==
    /\ Ran /\ parsed.ok
    /\ BodyStop < Len(input.lines)
    /\ \E l \in (BodyStop + 1)..Len(input.lines) : FileLine(l) = <<"$Nodes">>
    /\ \E l \in (BodyStop + 1)..Len(input.lines) : FileLine(l) = <<"$Elements">>
    /\ Len(parsed.nodes) = 4 /\ Len(parsed.elements) = 1

\* The sections before the line lack $Elements, a $Elements section follows
\* it, and no mesh is returned.
C20_WitnessNotRead ==
    /\ Ran /\ ~parsed.ok /\ parsed.what = "msh 4.1 parsing failed"
    /\ parsed.cause.what = "No tetrahedrons were parsed"
    /\ BodyStop < Len(input.lines)
    /\ \E l \in (BodyStop + 1)..Len(input.lines) : FileLine(l) = <<"$Elements">>

(***************************************************************************)
(* Claims about the sections parse_body does not know (SpecFile)           *)
(***************************************************************************)
\* The lines of an unknown section: from a $Comments line to the first
\* $EndComments line after it.
InUnknownSection(l) ==
    \E o \in 4..l :
        /\ FileLine(o) = <<"$Comments">>
        /\ \A m \in o..(l - 1) : FileLine(m) # <<"$EndComments">>

HasUnknownSection == \E l \in 4..Len(input.lines) : FileLine(l) = <<"$Comments">>

\* The file without the lines of its unknown sections.
RECURSIVE KeepFrom(_)
KeepFrom(l) ==
    IF l > Len(input.lines) THEN <<>>
    ELSE (IF l >= 4 /\ InUnknownSection(l) THEN <<>> ELSE <<input.lines[l]>>)
            \o KeepFrom(l + 1)

FileWithoutUnknown == Stream(KeepFrom(1), input.nl)

\* C21: a section of an unknown name is passed over as a whole, from its
\* first line to the line that closes it: none of its lines opens
\* $Entities, $PhysicalNames, $Nodes or $Elements or stops the body as
\* $MeshFormat, so the outcome is that of the file without the section.
C21_UnknownSectionSkippedWhole ==
    (Ran /\ HasUnknownSection) => parsed = parse_msh_file(FileWithoutUnknown)

\* The part of C21 that the code keeps: an unknown section none of whose
\* lines is $MeshFormat or the name of a known section is passed over as a
\* whole.
C21_PlainUnknownSectionSkipped ==
    (Ran /\ HasUnknownSection
         /\ \A l \in 4..Len(input.lines) :
               InUnknownSection(l) =>
                   FileLine(l) \notin {<<"$MeshFormat">>, <<"$Entities">>,
                                       <<"$PhysicalNames">>, <<"$Nodes">>, <<"$Elements">>})
        => parsed = parse_msh_file(FileWithoutUnknown)

(***************************************************************************)
(* Claims about the order of the mesh (SpecFile)                           *)
(***************************************************************************)
\* The nodes of blocs 1..b of $Nodes, bloc after bloc and line after line.
RECURSIVE FileNodesUpTo(_)
FileNodesUpTo(b) ==
    IF b = 0 THEN <<>>
    ELSE LET s == FileBloc(SectionAt("$Nodes"), 2, b)
             n == IntOf(FileLine(s)[4])
         IN  FileNodesUpTo(b - 1)
                \o [i \in 1..n |->
                       [tag |-> IntOf(FileLine(s + i)[1]),
                        x |-> IntOf(FileLine(s + n + i)[1]),
                        y |-> IntOf(FileLine(s + n + i)[2]),
                        z |-> IntOf(FileLine(s + n + i)[3])]]

FileNodes == FileNodesUpTo(IntOf(FileLine(SectionAt("$Nodes") + 1)[1]))

\* C22: the elements of a mesh that is returned are the tetrahedra of the
\* blocs of dimension 3 of $Elements in the order of their lines, each with
\* its four node tags in the order of its line, and its nodes are the nodes
\* of $Nodes in the order of the file.
C22_FileOrderKept ==
    (Ran /\ parsed.ok) =>
        /\ [k \in 1..Len(parsed.elements) |-> NodesOfElement(parsed.elements[k])]
              = [k \in 1..Len(FileTets) |->
                    <<FileTets[k].a, FileTets[k].b, FileTets[k].c, FileTets[k].d>>]
        /\ parsed.nodes = FileNodes

\* A mesh of two elements, the second with its node tags not in ascending
\* order, and of nodes whose tags are not in ascending order.
C22_Witness ==
    /\ Ran /\ parsed.ok
    /\ Len(parsed.elements) = 2
    /\ NodesOfElement(parsed.elements[2]) = <<2, 3, 4, 1>>
    /\ Len(parsed.nodes) = 4
    /\ parsed.nodes[1].tag = 2 /\ parsed.nodes[2].tag = 1

(***************************************************************************)
(* Claims about the scan of the candidates (SpecNbr)                       *)
(***************************************************************************)
\* The elements around the first node of face f of element e, in the order
\* in which the builder scans them, e itself left out.
Candidates(e, f) ==
    LET eap == elements_around_points(flatten_tetrahedron_vector(elements))
        face_point == faces(At(elements, e))[f][1]
        lo == eap.list_indices[face_point - 1]
        hi == eap.list_indices[face_point]
    IN  SelectSeq([k \in 1..(hi - lo) |-> eap.elt_list[lo + k - 1]], LAMBDA j : j # e)

\* Those of them that have the face.
MatchingCandidates(e, f) ==
    SelectSeq(Candidates(e, f),
              LAMBDA j : \E g \in 0..3 : faces(At(elements, j))[g] = faces(At(elements, e))[f])

\* C23: a slot that has been set to an element is not written again.  The
\* slots of element 0 are all NONE when its faces are scanned, so each of
\* them that has a matching candidate holds, in the table that is returned,
\* the first matching candidate of its scan, also when three or more
\* elements share the face.
C23_FirstCandidateKept ==
    (Built /\ nbrs.ok) =>
        \A f \in 0..3 :
            MatchingCandidates(0, f) # <<>> => Slot(0, f) = MatchingCandidates(0, f)[1]

\* What the code does: the slot holds the last matching candidate of the
\* scan.
C23_LastCandidateKept ==
    (Built /\ nbrs.ok) =>
        \A f \in 0..3 :
            MatchingCandidates(0, f) # <<>> =>
                Slot(0, f) = MatchingCandidates(0, f)[Len(MatchingCandidates(0, f))]

(***************************************************************************)
(* Claims about the index of the elements around the nodes (SpecNbr)       *)
(***************************************************************************)
\* The index that the builder makes of the elements.
IndexOfElements == elements_around_points(flatten_tetrahedron_vector(elements))

LargestTag == CHOOSE m \in AllTags : \A n \in AllTags : n <= m

\* C24: for elements whose node tags are contiguous from 1 to M the index
\* has M + 1 offsets, the first 0, never decreasing, the last 4 * |tets| and
\* the length of elt_list; and for every node n of 1..M the slice of
\* elt_list from offsets[n-1] up to offsets[n] holds the elements that
\* contain n, and each of them once.
C24_IndexSlices ==
    (Built /\ TagsContiguous) =>
        LET eap == IndexOfElements
            M == LargestTag
            T == Len(elements)
        IN  /\ eap.ok
            /\ DOMAIN eap.list_indices = 0..M
            /\ eap.list_indices[0] = 0
            /\ \A n \in 1..M : eap.list_indices[n - 1] <= eap.list_indices[n]
            /\ eap.list_indices[M] = 4 * T
            /\ DOMAIN eap.elt_list = 0..(4 * T - 1)
            /\ \A n \in 1..M :
                  LET slice == eap.list_indices[n - 1]..(eap.list_indices[n] - 1)
                  IN  /\ {eap.elt_list[p] : p \in slice} = {e \in EltIds : n \in TagsOf(e)}
                      /\ \A p, q \in slice : p # q => eap.elt_list[p] # eap.elt_list[q]

\* Three elements on the nodes 1..5, one node in all three and one node in
\* one only.
C24_Witness ==
    /\ Built /\ TagsContiguous
    /\ Len(elements) = 3
    /\ AllTags = 1..5
    /\ \E n \in AllTags : \A e \in EltIds : n \in TagsOf(e)
    /\ \E n \in AllTags : Cardinality({e \in EltIds : n \in TagsOf(e)}) = 1

(***************************************************************************)
(* Claims about the two indices (SpecIndex)                                *)
(***************************************************************************)
IndexBuilt == index # NotRun

\* C25: on a list in which an element has the node tag 0, neither
\* elements_around_points nor elements_around_nodes returns an index: each
\* ends with an exception.
C25_TagZeroFailsBothIndices ==
    (IndexBuilt /\ 0 \in AllTags) =>
        /\ ~index.ok /\ index.what = "out_of_range"
        /\ ~shared.ok /\ shared.what = "out_of_range"

\* The element with the node tag 0 is the last of three.
C25_Witness ==
    /\ IndexBuilt
    /\ Len(elements) = 3
    /\ 0 \in TagsOf(2) /\ 0 \notin TagsOf(0) /\ 0 \notin TagsOf(1)
    /\ ~index.ok /\ ~shared.ok

\* Without the node tag 0 both indices are returned.
C25_WitnessReturned ==
    /\ IndexBuilt
    /\ 0 \notin AllTags
    /\ index.ok /\ shared.ok

(***************************************************************************)
(* Claims about the faces of the elements of a list (SpecFaces)            *)
(***************************************************************************)
FaceOf(e, f) == faces(At(elements, e))[f]

NodeSet(face) == {face[k] : k \in 1..3}

\* C26: for any two elements e, j of the list and any face slots f, g, the
\* faces have the same set of nodes exactly when the two triples are equal
\* component by component, and two different slots of one element never
\* hold equal triples.
C26_FaceCanonicity ==
    LET face == [e \in EltIds |-> faces(At(elements, e))]
        set == [e \in EltIds |-> [f \in 0..3 |-> NodeSet(face[e][f])]]
    IN  \A e \in EltIds, j \in EltIds : \A f \in 0..3, g \in 0..3 :
            /\ (set[e][f] = set[j][g]) <=> (face[e][f] = face[j][g])
            /\ (e = j /\ f # g) => face[e][f] # face[j][g]

\* Two different elements with a common face at different slots, the
\* second constructed from tags that were not in ascending order.
C26_Witness ==
    /\ Len(elements) = 2
    /\ \E k \in 1..3 : ctor_args[k] > ctor_args[k + 1]
    /\ At(elements, 0) # At(elements, 1)
    /\ \E f \in 0..3, g \in 0..3 :
          /\ f # g
          /\ NodeSet(FaceOf(0, f)) = NodeSet(FaceOf(1, g))

(***************************************************************************)
(* Claims about the three builders (SpecBuilders)                          *)
(***************************************************************************)
\* The slice of elt_list of node n, in its order.
SliceOf(n) ==
    [p \in 1..(index.list_indices[n] - index.list_indices[n - 1]) |->
        index.elt_list[index.list_indices[n - 1] + p - 1]]

\* C27: for every non-empty list of elements with node tags contiguous from
\* 1, the builder of neighbour.h (flags), the builder of msh_parser.h (index
\* and face equality) and the builder of part_002 (lists) return the same
\* table, and for every node the slice of the index and the list of the
\* node hold the same elements in the same order.
C27_BuildersAgree ==
    (Built /\ TagsContiguous) =>
        /\ nbrs.ok /\ flag_nbrs.ok /\ list_nbrs.ok
        /\ flag_nbrs.neighbours = nbrs.neighbours
        /\ list_nbrs.neighbours = nbrs.neighbours
        /\ index.ok /\ shared.ok
        /\ DOMAIN shared.shared_nodes = 0..(LargestTag - 1)
        /\ \A n \in 1..LargestTag : SliceOf(n) = shared.shared_nodes[n - 1]

\* Three elements on the nodes 1..5 with a face of three of them, a table
\* with a neighbour found, and a node with the three elements around it.
C27_Witness ==
    /\ Built /\ TagsContiguous
    /\ Len(elements) = 3
    /\ ~Manifold
    /\ \E s \in DOMAIN flag_nbrs.neighbours : flag_nbrs.neighbours[s] # NONE
    /\ \E n \in 1..LargestTag : Len(shared.shared_nodes[n - 1]) = 3

\* Every slot of table t is NONE or the index of another element of the
\* list one of whose faces is the face of the slot.
TableSound(t) ==
    /\ DOMAIN t.neighbours = 0..(FACES_PER_ELT * Len(elements) - 1)
    /\ \A e \in EltIds : \A f \in 0..3 :
          LET j == t.neighbours[e * FACES_PER_ELT + f]
          IN  \/ j = NONE
              \/ /\ j \in EltIds
                 /\ j # e
                 /\ \E g \in 0..3 : FaceOf(j, g) = FaceOf(e, f)

\* C28: in the table returned by the builder of msh_parser.h and in the one
\* returned by the builder of part_002, every slot neighbours[e][f] is NONE
\* or an index j with 0 <= j < |tets|, j # e, and a face of j equal to
\* faces(e)[f]: no element is its own neighbour.
C28_Soundness ==
    Built =>
        /\ nbrs.ok => TableSound(nbrs)
        /\ list_nbrs.ok => TableSound(list_nbrs)

\* Tables of three elements returned by both builders, with a slot that
\* holds a neighbour and a slot that holds NONE.
C28_Witness ==
    /\ Built /\ nbrs.ok /\ list_nbrs.ok
    /\ Len(elements) = 3
    /\ \E e \in EltIds, f \in 0..3 :
          /\ Slot(e, f) \in EltIds \ {e}
          /\ list_nbrs.neighbours[e * FACES_PER_ELT + f] \in EltIds \ {e}
    /\ \E e \in EltIds, f \in 0..3 : Slot(e, f) = NONE

\* A slot of table t is NONE exactly when no other element has the face.
TableComplete(t) ==
    \A e \in EltIds : \A f \in 0..3 :
        (t.neighbours[e * FACES_PER_ELT + f] = NONE)
            <=> (Sharing(FaceOf(e, f)) \ {e} = {})

\* C29: in the table returned by the builder of msh_parser.h and in the one
\* returned by the builder of part_002, neighbours[e][f] is NONE if and only
\* if no element other than e has a face equal to faces(e)[f]: the scan of
\* the elements around the first node of the face misses no neighbour.
C29_Completeness ==
    Built =>
        /\ nbrs.ok => TableComplete(nbrs)
        /\ list_nbrs.ok => TableComplete(list_nbrs)

\* Tables of three elements returned by both builders: two elements share
\* their faces 0, found by both builders, and a slot is NONE in both tables
\* though another element holds the first node of its face and was scanned.
C29_Witness ==
    /\ Built /\ nbrs.ok /\ list_nbrs.ok
    /\ Len(elements) = 3
    /\ \E e \in EltIds, j \in EltIds :
          /\ e # j
          /\ FaceOf(e, 0) = FaceOf(j, 0)
          /\ Slot(e, 0) = j
          /\ list_nbrs.neighbours[e * FACES_PER_ELT] = j
    /\ \E e \in EltIds, f \in 0..3 :
          /\ Slot(e, f) = NONE
          /\ list_nbrs.neighbours[e * FACES_PER_ELT + f] = NONE
          /\ \E j \in EltIds \ {e} : FaceOf(e, f)[1] \in TagsOf(j)

(***************************************************************************)
(* Claims about a section that the body holds more than once (SpecFile)    *)
(***************************************************************************)
\* The lines of the body that open a section which a later line of the body
\* opens again.
EarlierHeaders ==
    With(BodyStop, LAMBDA stop :
        {o \in 4..(stop - 1) :
            /\ FileLine(o) \in {<<name>> : name \in KnownSections}
            /\ \E m \in (o + 1)..(stop - 1) : input.lines[m] = input.lines[o]})

\* The last line of the section that line o opens: the first line after o
\* that closes it.
RECURSIVE SectionEnd(_, _)
SectionEnd(o, m) ==
    IF m >= Len(input.lines) THEN Len(input.lines)
    ELSE IF FileLine(m) = <<EndMarker(FileLine(o)[1])>> THEN m
    ELSE SectionEnd(o, m + 1)

\* The lines of the file from line l on, without the sections that the
\* lines of `early` open; the lines up to `until` belong to such a section.
RECURSIVE KeepLast(_, _, _)
KeepLast(l, until, early) ==
    IF l > Len(input.lines) THEN <<>>
    ELSE IF l <= until THEN KeepLast(l + 1, until, early)
    ELSE IF l \in early
         THEN With(SectionEnd(l, l + 1), LAMBDA e : KeepLast(l + 1, e, early))
         ELSE <<input.lines[l]>> \o KeepLast(l + 1, 0, early)

\* The file with the last occurrence only of each of its sections.
FileOfLastSections(early) == Stream(KeepLast(1, 0, early), input.nl)

\* The section that line o opens is read without an exception: the parser
\* of the section on the lines after o.
OccurrenceOk(o) ==
    With(Stream(SubSeq(input.lines, o + 1, Len(input.lines)), input.nl), LAMBDA rest :
    With(FileLine(o)[1], LAMBDA name :
        CASE name = "$Entities" -> parse_entities(rest).ok
          [] name = "$PhysicalNames" -> parse_groups(rest).ok
          [] name = "$Nodes" -> parse_nodes(rest).ok
          [] OTHER -> parse_elements(rest).ok))

\* C30: when a line that opens $Entities, $PhysicalNames, $Nodes or
\* $Elements occurs more than once in the body, every occurrence is read
\* and checked, in the order of the stream, and what the last occurrence
\* holds replaces what the earlier ones held: if an earlier occurrence is
\* not well formed no mesh is returned, and otherwise the outcome is the
\* outcome for the file that holds only the last occurrence of each section.
C30_LastOccurrenceReplaces ==
    Ran =>
        With(EarlierHeaders, LAMBDA early :
            early # {} =>
                IF \A o \in early : OccurrenceOk(o)
                THEN parsed = parse_msh_file(FileOfLastSections(early))
                ELSE ~parsed.ok)

\* A mesh is returned from a file with two $Nodes sections that announce
\* different numbers of nodes: the mesh has the nodes of the last.
C30_Witness ==
    /\ Ran /\ parsed.ok
    /\ \E o \in EarlierHeaders :
          /\ FileLine(o) = <<"$Nodes">>
          /\ IntOf(FileLine(o + 1)[2]) # Len(parsed.nodes)
          /\ IntOf(FileLine(SectionAt("$Nodes") + 1)[2]) = Len(parsed.nodes)

\* The last occurrence of every section is well formed and an earlier
\* occurrence is not: no mesh is returned.
C30_WitnessEarlierChecked ==
    /\ Ran /\ ~parsed.ok
    /\ With(EarlierHeaders, LAMBDA early :
          /\ \E o \in early : ~OccurrenceOk(o)
          /\ parse_msh_file(FileOfLastSections(early)).ok)

====
